---- MODULE Spec2Model ----
(***************************************************************************)
(* Smart-Dental-Backend: the route handlers of the Express application as  *)
(* state machines over the external stores (Profile Store tables, the      *)
(* Credential Store, the Object Store and the local upload directory).     *)
(*                                                                         *)
(* One specification per router:                                           *)
(*   SpecGuard    checkAdmin (JWT) in front of a protected handler         *)
(*   Spec         routes/auth.js: login, register, refresh, logout         *)
(*   SpecUpload   routes/buckets.js: POST /buckets/upload/beforemodel       *)
(*   SpecLegacy   the router whose checkAdmin reads usertype from the body *)
(*   SpecGrouped  GET /services/grouped                                    *)
(*   SpecServices routes/services.js: service create / edit, soft delete    *)
(***************************************************************************)
EXTENDS Integers, Sequences, FiniteSets, TLC

\* ------------------------------------------------------------------------
\* Bounds of the model
\* ------------------------------------------------------------------------
MaxHeaderParts == 2

\* refresh tokens issued
MaxTokens == 2

\* upload requests received
MaxUploads == 2

\* link rows in the table a grouped request reads
MaxLinks == 2

\* The users router stops creating rows at this id.
MaxUserId == 3

\* The ids the services table hands out while link inserts may fail
MaxServiceId == 4

\* ------------------------------------------------------------------------
\* Values shared by the routers
\* ------------------------------------------------------------------------
UserTypes == {"admin", "patient", "dentist"}

UserIds == 1..2

\* process.env.JWT_SECRET, and a key that is not the secret
JWT_SECRET == "secret"

SigningKeys == {JWT_SECRET, "otherKey"}

VARIABLES
    gHeader,      \* req.headers.authorization of the last protected request
    gRes,         \* the response of the last protected request
    gUser,        \* req.user as the handler saw it
    gCalls        \* the store calls the last protected request made

guardVars == <<gHeader, gRes, gUser, gCalls>>

VARIABLES
    users,          \* Profile Store: the users table
    authUsers,      \* Credential Store: the auth users
    refreshTokens,  \* Profile Store: the refresh_tokens table
    nextUserId,     \* the id the store gives the next inserted users row
    nextToken,      \* the next value crypto.randomBytes(64) returns
    rf,             \* the refresh request between its two store calls
    aReq,           \* the last answered request of the auth router
    aRes,           \* its response
    aCalls,         \* the outbound calls it made, in order
    loggedOut       \* history: tokens for which a logout answered 200

authVars ==
    <<users, authUsers, refreshTokens, nextUserId, nextToken, rf, aReq, aRes, aCalls,
      loggedOut>>

VARIABLES
    uploadsDir,     \* the files multer stored under uploads/ that still exist
    objects,        \* Object Store: the objects, by bucket and path
    dentalModels,   \* Profile Store: the dental_models table
    uploadNo,       \* upload requests received so far
    uReq,           \* the last request of the buckets router
    uRes,           \* its response
    mRes            \* the response of the last GET /buckets/model/:record_id

uploadVars == <<uploadsDir, objects, dentalModels, uploadNo, uReq, uRes, mRes>>

VARIABLES
    services,        \* Profile Store: the services table
    categories,      \* Profile Store: the service_categories table
    links,           \* Profile Store: service_category_links, in stored order
    activityLogs,    \* Profile Store: the activity_logs table
    notifications,   \* Profile Store: the notifications table
    nextServiceId,   \* the id the store gives the next services row
    nextCategoryId,  \* the id the store gives the next category row
    inflight,        \* requests between their uniqueness lookup and their write
    cReq,            \* the last answered request of the catalogue routers
    cRes,            \* its response
    groupedRes       \* the body of the last GET /services/grouped response

catalogVars ==
    <<services, categories, links, activityLogs, notifications, nextServiceId,
      nextCategoryId, inflight, cReq, cRes, groupedRes>>

VARIABLES
    usrInflight,    \* a POST /users/add between its insert and its log write
    usrReq,         \* the last answered request of the users router
    usrRes,         \* its response
    softDeleted     \* history: the rows a soft delete answered 200 for

usersVars == <<usrInflight, usrReq, usrRes, softDeleted>>

VARIABLES
    listRes         \* the body of the last GET /services or GET /categories response

listVars == <<listRes>>

VARIABLES
    gSeen           \* history: the decisions of the Access Guard, with the
                    \* profile of the token's owner at the time

histVars == <<gSeen>>

vars == <<guardVars, authVars, uploadVars, catalogVars, usersVars, listVars, histVars>>

\* ========================================================================
\* Access Guard: checkAdmin
\* ========================================================================

\* One space-free part of an Authorization header.  kind "jwt" is a token
\* jwt.sign produced with key `key`; "scheme" is a word such as Bearer;
\* "empty" is the empty string; "garbage" is any other non-empty text.
NoPayload == [id |-> 0, usertype |-> "none"]

Word(kind, key, expired, payload) ==
    [kind |-> kind, key |-> key, expired |-> expired, payload |-> payload]

JwtWords ==
    { Word("jwt", k, e, [id |-> i, usertype |-> u]) :
        k \in SigningKeys, e \in BOOLEAN, i \in UserIds, u \in UserTypes }

PlainWords ==
    { Word(k, "none", FALSE, NoPayload) : k \in {"scheme", "empty", "garbage"} }

Words == JwtWords \cup PlainWords

\* A header is absent, or a string; a string is the sequence of its parts
\* between single spaces (what split(" ") returns).
RECURSIVE SeqsUpTo(_, _)
SeqsUpTo(S, n) ==
    IF n = 0 THEN { <<>> }
    ELSE LET shorter == SeqsUpTo(S, n - 1)
         IN  shorter \cup { Append(s, x) : s \in { t \in shorter : Len(t) = n - 1 }, x \in S }

AbsentHeader == [present |-> FALSE, parts |-> <<>>]

Headers ==
    { AbsentHeader } \cup
    { [present |-> TRUE, parts |-> p] : p \in SeqsUpTo(Words, MaxHeaderParts) \ { <<>> } }

\* rawHeader?.split(" ")[1]
HeaderToken(h) ==
    IF h.present /\ Len(h.parts) >= 2 THEN h.parts[2]
    ELSE Word("empty", "none", FALSE, NoPayload)

\* !token
Falsy(w) == w.kind = "empty"

\* jwt.verify(token, secret): returns the payload, or throws
jwtVerifyThrows(w, secret) ==
    \/ w.kind # "jwt"
    \/ w.key # secret
    \/ w.expired

GuardReply(status, message) ==
    [status |-> status, message |-> message, next |-> FALSE, user |-> NoPayload]

checkAdmin_NoRoleCheck(h) ==
    LET token == HeaderToken(h)
    IN  IF Falsy(token) THEN GuardReply(401, "No token")
        ELSE IF jwtVerifyThrows(token, JWT_SECRET) THEN GuardReply(401, "Invalid token")
        ELSE [status |-> 0, message |-> "", next |-> TRUE, user |-> token.payload]

\* A guard that also looks the token's owner up in the users table.
checkAdmin_ReadsProfile(h) ==
    LET token == HeaderToken(h)
    IN  IF Falsy(token) THEN GuardReply(401, "No token")
        ELSE IF jwtVerifyThrows(token, JWT_SECRET) THEN GuardReply(401, "Invalid token")
        ELSE IF \/ token.payload.usertype # "admin"
                \/ ~\E r \in users :
                       r.id = token.payload.id /\ ~r.is_deleted /\ r.usertype = "admin"
        THEN GuardReply(403, "Admins only")
        ELSE [status |-> 0, message |-> "", next |-> TRUE, user |-> token.payload]

\* The middleware: the reply it sends, or next() with req.user set.
checkAdmin(h) ==
    LET token == HeaderToken(h)
    IN  IF Falsy(token) THEN GuardReply(401, "No token")
        ELSE IF jwtVerifyThrows(token, JWT_SECRET) THEN GuardReply(401, "Invalid token")
        ELSE IF token.payload.usertype # "admin" THEN GuardReply(403, "Admins only")
        ELSE [status |-> 0, message |-> "", next |-> TRUE, user |-> token.payload]

\* GET /users/all behind checkAdmin: the handler reads the users table and
\* lists the Credential Store users, then answers 200.
UsersAllCalls == {"users.select", "auth.admin.listUsers"}

ProtectedRequest(h) ==
    LET g == checkAdmin(h)
    IN  /\ gRes.status = 0
        /\ gHeader' = h
        /\ IF g.next
           THEN /\ gUser' = g.user
                /\ gCalls' = UsersAllCalls
                /\ gRes' = [status |-> 200, message |-> "users"]
           ELSE /\ gUser' = NoPayload
                /\ gCalls' = {}
                /\ gRes' = [status |-> g.status, message |-> g.message]

\* The response was sent: req and res are dropped.
EndProtectedRequest ==
    /\ gRes.status # 0
    /\ gHeader' = AbsentHeader
    /\ gRes' = [status |-> 0, message |-> ""]
    /\ gUser' = NoPayload
    /\ gCalls' = {}

InitGuard ==
    /\ gHeader = AbsentHeader
    /\ gRes = [status |-> 0, message |-> ""]
    /\ gUser = NoPayload
    /\ gCalls = {}

\* ========================================================================
\* routes/auth.js
\* ========================================================================

\* Request texts.  "al" and "pw" are shorter than the validators allow,
\* "nomail" is not an e-mail address, "" is an empty name.
Usernames == {"root", "amy", "bob", "al"}

Passwords == {"secret1", "secret2", "pw"}


Emails == {"amy@x.io", "bob@x.io", "nomail"}

FcmTokens == {"", "device1"}

\* express-validator isEmail()
IsEmail(e) == e \in {"amy@x.io", "bob@x.io", "root@x.io"}

\* bcrypt.hash(password, 10); columns without a value hold null
Hash(p) == "$2b$10$" \o p

Null == "null"

\* bcrypt.compare(data, hash) throws when hash is missing
bcryptCompareThrows(h) == h = Null

bcryptCompare(p, h) == h = Hash(p)

\* The tokens a client can present: none, one it made up, or one that was
\* issued (crypto.randomBytes(64) values cannot be guessed beforehand).
MissingToken == 0

ForgedToken == -1

PresentableTokens == {MissingToken, ForgedToken} \cup (1..(nextToken - 1))

NoAccess == [id |-> 0, username |-> Null, usertype |-> Null, expiresIn |-> Null]

\* jwt.sign({ id, username, usertype }, JWT_SECRET, { expiresIn })
jwtSign(user, expiresIn) ==
    [id |-> user.id, username |-> user.username, usertype |-> user.usertype,
     expiresIn |-> expiresIn]

NoUser == [id |-> 0]

Reply(status, message) ==
    [status |-> status, message |-> message, accessToken |-> NoAccess,
     refreshToken |-> MissingToken, user |-> NoUser]

NoRequest ==
    [route |-> "none", username |-> Null, password |-> Null, token |-> MissingToken]

LoginRequest(route, u, p) ==
    [route |-> route, username |-> u, password |-> p, token |-> MissingToken]

TokenRequest(route, t) ==
    [route |-> route, username |-> Null, password |-> Null, token |-> t]

\* .eq(column, value) on the users table
UsersWhere(column, value) == { r \in users : r[column] = value }

\* The administrator the deployment starts with: a Credential Store record
\* and a profile row with the same id (no local password column value).
SeedAdmin ==
    [id |-> 1, username |-> "root", email |-> Null, password |-> Null,
     usertype |-> "admin", firstname |-> "Root", lastname |-> "Admin",
     is_deleted |-> FALSE, deleted_at |-> Null, fcm_token |-> Null]

SeedCredential == [id |-> 1, email |-> "root@x.io", password |-> "secret1"]

\* A patient who registered through POST /auth/app/register.
SeedPatient ==
    [id |-> 2, username |-> "amy", email |-> "amy@x.io", password |-> Hash("secret1"),
     usertype |-> "patient", firstname |-> "Ann", lastname |-> "Lee",
     is_deleted |-> FALSE, deleted_at |-> Null, fcm_token |-> Null]

\* body('username').isLength({ min: 3 }), body('password').isLength({ min: 6 })
LoginValid(u, p) == Len(u) >= 3 /\ Len(p) >= 6

\* ------------------ POST /auth/website/login ------------------
WebsiteLoginReply_PasswordFirst(u, p) ==
    LET rows == UsersWhere("username", u)
        localUser == CHOOSE r \in rows : TRUE
        cred == { c \in authUsers : c.id = localUser.id }
        authUser == CHOOSE c \in cred : TRUE
    IN  IF ~LoginValid(u, p) THEN Reply(400, "validation")
        ELSE IF Cardinality(rows) # 1 THEN Reply(400, "User not found.")
        ELSE IF cred = {} THEN Reply(400, "Failed to find auth user.")
        ELSE IF authUser.password # p THEN Reply(400, "Incorrect password.")
        ELSE IF localUser.usertype # "admin"
             THEN Reply(403, "Access denied. Admins only.")
        ELSE [Reply(200, "Admin login successful") EXCEPT
                !.accessToken = jwtSign(localUser, "24h"),
                !.user = [id |-> localUser.id, username |-> localUser.username,
                          usertype |-> localUser.usertype]]

WebsiteLoginReply(u, p) ==
    LET rows == UsersWhere("username", u)
        localUser == CHOOSE r \in rows : TRUE
        cred == { c \in authUsers : c.id = localUser.id }
        authUser == CHOOSE c \in cred : TRUE
    IN  IF ~LoginValid(u, p) THEN Reply(400, "validation")
        ELSE IF Cardinality(rows) # 1 THEN Reply(400, "User not found.")
        ELSE IF localUser.usertype # "admin"
             THEN Reply(403, "Access denied. Admins only.")
        ELSE IF cred = {} THEN Reply(400, "Failed to find auth user.")
        ELSE IF authUser.password # p THEN Reply(400, "Incorrect password.")
        ELSE [Reply(200, "Admin login successful") EXCEPT
                !.accessToken = jwtSign(localUser, "24h"),
                !.user = [id |-> localUser.id, username |-> localUser.username,
                          usertype |-> localUser.usertype]]

\* The calls the handler makes when every step runs whatever the checks say.
WebsiteLoginCalls_AllSteps(u, p) ==
    <<"users.select", "auth.admin.getUserById", "auth.signInWithPassword", "jwt.sign">>

\* The calls the handler has made when it answers.
WebsiteLoginCalls(u, p) ==
    LET rows == UsersWhere("username", u)
        localUser == CHOOSE r \in rows : TRUE
        cred == { c \in authUsers : c.id = localUser.id }
        authUser == CHOOSE c \in cred : TRUE
    IN  IF ~LoginValid(u, p) THEN <<>>
        ELSE IF Cardinality(rows) # 1 \/ localUser.usertype # "admin"
        THEN <<"users.select">>
        ELSE IF cred = {} THEN <<"users.select", "auth.admin.getUserById">>
        ELSE IF authUser.password # p
        THEN <<"users.select", "auth.admin.getUserById", "auth.signInWithPassword">>
        ELSE <<"users.select", "auth.admin.getUserById", "auth.signInWithPassword",
               "jwt.sign">>

WebsiteLogin(u, p) ==
    /\ aReq' = LoginRequest("website/login", u, p)
    /\ aRes' = WebsiteLoginReply(u, p)
    /\ aCalls' = WebsiteLoginCalls(u, p)
    /\ UNCHANGED <<users, authUsers, refreshTokens, nextUserId, nextToken, rf, loggedOut>>

\* ------------------ POST /auth/app/login ------------------
\* The handler up to the password comparison: the reply it sends there, or
\* status 0 when it goes on to issue tokens.
AppLoginCheck(u, p) ==
    LET rows == UsersWhere("username", u)
        user == CHOOSE r \in rows : TRUE
    IN  IF ~LoginValid(u, p) THEN Reply(400, "validation")
        ELSE IF Cardinality(rows) # 1 THEN Reply(400, "User not found.")
        ELSE IF user.usertype # "patient" /\ user.usertype # "dentist"
             THEN Reply(403, "Access denied. Patients and Dentists only.")
        ELSE IF bcryptCompareThrows(user.password)
             THEN Reply(500, "Server error during login.")
        ELSE IF ~bcryptCompare(p, user.password) THEN Reply(400, "Incorrect password")
        ELSE Reply(0, "continue")

\* The calls of the handler up to the password comparison.
AppLoginCheckCalls(u, p) ==
    LET rows == UsersWhere("username", u)
        user == CHOOSE r \in rows : TRUE
    IN  IF ~LoginValid(u, p) THEN <<>>
        ELSE IF Cardinality(rows) # 1 THEN <<"users.select">>
        ELSE IF user.usertype # "patient" /\ user.usertype # "dentist"
        THEN <<"users.select">>
        ELSE <<"users.select", "bcrypt.compare">>

\* What the insert into refresh_tokens does: it stores the row, or resolves
\* with { error } and stores nothing (supabase-js does not throw).
InsertOutcomes == {"ok", "error"}

AppLogin(u, p, fcmToken, insertCall) ==
    LET check == AppLoginCheck(u, p)
        user == CHOOSE r \in UsersWhere("username", u) : TRUE
        refreshToken == nextToken
    IN  /\ aReq' = LoginRequest("app/login", u, p)
        /\ IF check.status # 0
           THEN /\ aRes' = check
                /\ aCalls' = AppLoginCheckCalls(u, p)
                /\ UNCHANGED <<users, refreshTokens, nextToken>>
           ELSE /\ nextToken <= MaxTokens
                /\ users' = IF fcmToken # ""
                            THEN { IF r.id = user.id
                                   THEN [r EXCEPT !.fcm_token = fcmToken] ELSE r : r \in users }
                            ELSE users
                /\ nextToken' = nextToken + 1
                /\ refreshTokens' =
                       IF insertCall = "ok"
                       THEN refreshTokens \cup { [token |-> refreshToken, user_id |-> user.id] }
                       ELSE refreshTokens
                /\ aCalls' =
                       AppLoginCheckCalls(u, p)
                       \o (IF fcmToken # "" THEN <<"users.update">> ELSE <<>>)
                       \o <<"jwt.sign", "refresh_tokens.insert">>
                /\ aRes' = [Reply(200, "Login successful") EXCEPT
                              !.accessToken = jwtSign(user, "15m"),
                              !.refreshToken = refreshToken,
                              !.user = [id |-> user.id, username |-> user.username,
                                        usertype |-> user.usertype]]
        /\ UNCHANGED <<authUsers, nextUserId, rf, loggedOut>>

\* ------------------ POST /auth/app/register ------------------
RegisterValid(u, e, p, t, first, last) ==
    /\ Len(u) >= 3
    /\ IsEmail(e)
    /\ Len(p) >= 6
    /\ t \in {"patient", "dentist"}
    /\ first # ""
    /\ last # ""

\* .maybeSingle(): the row when exactly one matches, otherwise no data
MaybeSingleFound(rows) == Cardinality(rows) = 1

\* const { password: _, ...userWithoutPassword } = newUser
WithoutPassword_Kept(row) == row

WithoutPassword(row) == [f \in DOMAIN row \ {"password"} |-> row[f]]

Register(u, e, p, t, first, last) ==
    LET newUser ==
            [id |-> nextUserId, username |-> u, email |-> e, password |-> Hash(p),
             usertype |-> t, firstname |-> first, lastname |-> last,
             is_deleted |-> FALSE, deleted_at |-> Null, fcm_token |-> Null]
        accepted ==
            /\ RegisterValid(u, e, p, t, first, last)
            /\ ~MaybeSingleFound(UsersWhere("username", u))
            /\ ~MaybeSingleFound(UsersWhere("email", e))
    IN  /\ aReq' = LoginRequest("app/register", u, p)
        /\ IF ~RegisterValid(u, e, p, t, first, last)
           THEN aRes' = Reply(400, "validation")
           ELSE IF MaybeSingleFound(UsersWhere("username", u))
           THEN aRes' = Reply(400, "Username already taken")
           ELSE IF MaybeSingleFound(UsersWhere("email", e))
           THEN aRes' = Reply(400, "Email already registered")
           ELSE aRes' = [Reply(201, "User registered successfully") EXCEPT
                            !.user = WithoutPassword(newUser)]
        /\ aCalls' =
               IF ~RegisterValid(u, e, p, t, first, last) THEN <<>>
               ELSE IF MaybeSingleFound(UsersWhere("username", u)) THEN <<"users.select">>
               ELSE IF MaybeSingleFound(UsersWhere("email", e))
               THEN <<"users.select", "users.select">>
               ELSE <<"users.select", "users.select", "bcrypt.hash", "users.insert">>
        /\ IF accepted
           THEN /\ users' = users \cup {newUser}
                /\ nextUserId' = nextUserId + 1
           ELSE UNCHANGED <<users, nextUserId>>
        /\ UNCHANGED <<authUsers, refreshTokens, nextToken, rf, loggedOut>>

\* Registration bodies: the well-formed ones, and one body per validator
\* that fails.
RegisterBody(u, e, p, t, first, last) ==
    [username |-> u, email |-> e, password |-> p, usertype |-> t,
     firstname |-> first, lastname |-> last]

RegisterBodies ==
    { RegisterBody(u, e, "secret2", t, "Ann", "Lee") :
        u \in {"amy", "bob"}, e \in {"amy@x.io", "bob@x.io"}, t \in {"patient", "dentist"} }
    \cup { RegisterBody("al", "bob@x.io", "secret2", "patient", "Ann", "Lee"),
           RegisterBody("bob", "nomail", "secret2", "patient", "Ann", "Lee"),
           RegisterBody("bob", "bob@x.io", "pw", "patient", "Ann", "Lee"),
           RegisterBody("bob", "bob@x.io", "secret2", "admin", "Ann", "Lee"),
           RegisterBody("bob", "bob@x.io", "secret2", "patient", "", "Lee"),
           RegisterBody("bob", "bob@x.io", "secret2", "patient", "Ann", "") }

\* ------------------ POST /auth/refresh-token ------------------
RfIdle == [pc |-> "idle", token |-> MissingToken, user_id |-> 0]

\* The request up to the refresh_tokens lookup: it answers 401 or 403
\* there, or goes on to fetch the user.
RefreshLookup(t) ==
    LET rows == { r \in refreshTokens : r.token = t }
        tokenData == CHOOSE r \in rows : TRUE
    IN  /\ rf.pc = "idle"
        /\ IF t = MissingToken
           THEN /\ aReq' = TokenRequest("refresh-token", t)
                /\ aRes' = Reply(401, "Missing refresh token")
                /\ aCalls' = <<>>
                /\ rf' = rf
           ELSE IF ~MaybeSingleFound(rows)
           THEN /\ aReq' = TokenRequest("refresh-token", t)
                /\ aRes' = Reply(403, "Invalid refresh token")
                /\ aCalls' = <<"refresh_tokens.select">>
                /\ rf' = rf
           ELSE /\ rf' = [pc |-> "user", token |-> t, user_id |-> tokenData.user_id]
                /\ UNCHANGED <<aReq, aRes, aCalls>>
        /\ UNCHANGED <<users, authUsers, refreshTokens, nextUserId, nextToken, loggedOut>>

\* The answer, when the handler also deleted the row it had looked up.
RefreshFinish_Rotates ==
    LET rows == UsersWhere("id", rf.user_id)
        user == CHOOSE r \in rows : TRUE
    IN  /\ rf.pc = "user"
        /\ rf' = RfIdle
        /\ aReq' = TokenRequest("refresh-token", rf.token)
        /\ aCalls' = IF Cardinality(rows) # 1
                     THEN <<"refresh_tokens.select", "users.select">>
                     ELSE <<"refresh_tokens.select", "users.select", "jwt.sign">>
        /\ aRes' = IF Cardinality(rows) # 1
                   THEN Reply(404, "User not found")
                   ELSE [Reply(200, "") EXCEPT !.accessToken = jwtSign(user, "15m")]
        /\ refreshTokens' = { r \in refreshTokens : r.token # rf.token }
        /\ UNCHANGED <<users, authUsers, nextUserId, nextToken, loggedOut>>

\* The users lookup by tokenData.user_id, and the answer.
RefreshFinish ==
    LET rows == UsersWhere("id", rf.user_id)
        user == CHOOSE r \in rows : TRUE
    IN  /\ rf.pc = "user"
        /\ rf' = RfIdle
        /\ aReq' = TokenRequest("refresh-token", rf.token)
        /\ aCalls' = IF Cardinality(rows) # 1
                     THEN <<"refresh_tokens.select", "users.select">>
                     ELSE <<"refresh_tokens.select", "users.select", "jwt.sign">>
        /\ aRes' = IF Cardinality(rows) # 1
                   THEN Reply(404, "User not found")
                   ELSE [Reply(200, "") EXCEPT !.accessToken = jwtSign(user, "15m")]
        /\ UNCHANGED <<users, authUsers, refreshTokens, nextUserId, nextToken, loggedOut>>

\* ------------------ POST /auth/logout ------------------
Logout_KeepsRow(t) ==
    /\ aReq' = TokenRequest("logout", t)
    /\ IF t = MissingToken
       THEN /\ aRes' = Reply(400, "Missing refresh token")
            /\ aCalls' = <<>>
            /\ UNCHANGED <<refreshTokens, loggedOut>>
       ELSE /\ refreshTokens' = refreshTokens
            /\ loggedOut' = loggedOut \cup {t}
            /\ aCalls' = <<"refresh_tokens.delete">>
            /\ aRes' = Reply(200, "Logged out successfully")
    /\ UNCHANGED <<users, authUsers, nextUserId, nextToken, rf>>

Logout_RowRequired(t) ==
    /\ aReq' = TokenRequest("logout", t)
    /\ IF t = MissingToken
       THEN /\ aRes' = Reply(400, "Missing refresh token")
            /\ aCalls' = <<>>
            /\ UNCHANGED <<refreshTokens, loggedOut>>
       ELSE IF \A r \in refreshTokens : r.token # t
       THEN /\ aRes' = Reply(404, "Unknown refresh token")
            /\ aCalls' = <<"refresh_tokens.select">>
            /\ UNCHANGED <<refreshTokens, loggedOut>>
       ELSE /\ refreshTokens' = { r \in refreshTokens : r.token # t }
            /\ loggedOut' = loggedOut \cup {t}
            /\ aCalls' = <<"refresh_tokens.delete">>
            /\ aRes' = Reply(200, "Logged out successfully")
    /\ UNCHANGED <<users, authUsers, nextUserId, nextToken, rf>>

Logout_AllSessions(t) ==
    LET owners == { r.user_id : r \in { x \in refreshTokens : x.token = t } }
    IN  /\ aReq' = TokenRequest("logout", t)
        /\ IF t = MissingToken
           THEN /\ aRes' = Reply(400, "Missing refresh token")
                /\ aCalls' = <<>>
                /\ UNCHANGED <<refreshTokens, loggedOut>>
           ELSE /\ refreshTokens' = { r \in refreshTokens : r.user_id \notin owners }
                /\ loggedOut' = loggedOut \cup {t}
                /\ aCalls' = <<"refresh_tokens.delete">>
                /\ aRes' = Reply(200, "Logged out successfully")
        /\ UNCHANGED <<users, authUsers, nextUserId, nextToken, rf>>

Logout(t) ==
    /\ aReq' = TokenRequest("logout", t)
    /\ IF t = MissingToken
       THEN /\ aRes' = Reply(400, "Missing refresh token")
            /\ aCalls' = <<>>
            /\ UNCHANGED <<refreshTokens, loggedOut>>
       ELSE /\ refreshTokens' = { r \in refreshTokens : r.token # t }
            /\ loggedOut' = loggedOut \cup {t}
            /\ aCalls' = <<"refresh_tokens.delete">>
            /\ aRes' = Reply(200, "Logged out successfully")
    /\ UNCHANGED <<users, authUsers, nextUserId, nextToken, rf>>

\* ------------------ PATCH /auth/change-password ------------------
PasswordRequest(route, userId, currentPassword, newPassword) ==
    [route |-> route, username |-> Null, password |-> currentPassword,
     token |-> MissingToken, userId |-> userId, newPassword |-> newPassword]

ChangePasswordReply_NoCompare(userId, currentPassword, updateCall) ==
    LET rows == UsersWhere("id", userId)
        user == CHOOSE r \in rows : TRUE
    IN  IF Cardinality(rows) # 1 THEN Reply(404, "User not found")
        ELSE IF bcryptCompareThrows(user.password) THEN Reply(500, "Server error")
        ELSE IF updateCall = "error" THEN Reply(400, "Error updating password")
        ELSE Reply(200, "Password changed successfully")

\* The answer of the handler; .single() finds the row by its id, the update
\* resolves with or without { error }.
ChangePasswordReply(userId, currentPassword, updateCall) ==
    LET rows == UsersWhere("id", userId)
        user == CHOOSE r \in rows : TRUE
    IN  IF Cardinality(rows) # 1 THEN Reply(404, "User not found")
        ELSE IF bcryptCompareThrows(user.password) THEN Reply(500, "Server error")
        ELSE IF ~bcryptCompare(currentPassword, user.password)
             THEN Reply(400, "Current password incorrect")
        ELSE IF updateCall = "error" THEN Reply(400, "Error updating password")
        ELSE Reply(200, "Password changed successfully")

ChangePassword(userId, currentPassword, newPassword, updateCall) ==
    /\ aReq' = PasswordRequest("change-password", userId, currentPassword, newPassword)
    /\ aRes' = ChangePasswordReply(userId, currentPassword, updateCall)
    /\ aCalls' = <<"users.select">>
    /\ users' = IF aRes'.status = 200
                THEN { IF r.id = userId
                       THEN [r EXCEPT !.password = Hash(newPassword)] ELSE r : r \in users }
                ELSE users
    /\ UNCHANGED <<authUsers, refreshTokens, nextUserId, nextToken, rf, loggedOut>>

\* ------------------ POST /auth/reset-password ------------------
\* access_token: 0 when the body has none, otherwise the id of the
\* credential the recovery token was issued for.
\* supabase.auth.getUser(access_token)
getUser(access_token) == { c \in authUsers : c.id = access_token }

ResetPasswordReply(access_token, newPassword, updateCall) ==
    IF access_token = 0 THEN Reply(400, "Access token is required.")
    ELSE IF Len(newPassword) < 6
    THEN Reply(400, "Password must be at least 6 characters long")
    ELSE IF getUser(access_token) = {} THEN Reply(400, "Invalid or expired token.")
    ELSE IF updateCall = "error" THEN Reply(400, "update failed")
    ELSE Reply(200, "Password updated successfully.")

ResetPassword(access_token, newPassword, updateCall) ==
    /\ aReq' = PasswordRequest("reset-password", access_token, Null, newPassword)
    /\ aRes' = ResetPasswordReply(access_token, newPassword, updateCall)
    /\ aCalls' = <<>>
    /\ authUsers' = IF aRes'.status = 200
                    THEN { IF c.id = access_token
                           THEN [c EXCEPT !.password = newPassword] ELSE c : c \in authUsers }
                    ELSE authUsers
    /\ UNCHANGED <<users, refreshTokens, nextUserId, nextToken, rf, loggedOut>>

InitAuth ==
    /\ users = {SeedAdmin, SeedPatient}
    /\ authUsers = {SeedCredential}
    /\ refreshTokens = {}
    /\ nextUserId = 3
    /\ nextToken = 1
    /\ rf = RfIdle
    /\ aReq = NoRequest
    /\ aRes = Reply(0, "")
    /\ aCalls = <<>>
    /\ loggedOut = {}

\* ========================================================================
\* routes/buckets.js: model upload
\* ========================================================================
RecordIds == {"", "r1"}

\* What a call to the Object Store or the Profile Store does: it succeeds,
\* resolves with { error }, or rejects (throws at the await).
CallOutcomes == {"ok", "error", "throw"}

UploadBucket == "3d-Dental-Model"

ModelPath(record_id, ext) == "models/DentalModel_" \o record_id \o "." \o ext

\* A file multer wrote for the request numbered no, from the part named field.
TempFile(no, field) == [req |-> no, field |-> field]

UploadRequest(no, record_id, hasGltf, hasBin) ==
    [no |-> no, record_id |-> record_id, gltf |-> hasGltf, bin |-> hasBin]

UploadReply(status, message, gltfPath, binPath) ==
    [status |-> status, message |-> message, gltfPath |-> gltfPath, binPath |-> binPath]

\* upload.fields([...]): every file part of the request is written to
\* uploads/ before the handler runs.
MulterStored(no, hasGltf, hasBin) ==
    (IF hasGltf THEN {TempFile(no, "gltf")} ELSE {})
    \cup (IF hasBin THEN {TempFile(no, "bin")} ELSE {})

\* The temporary files the handler has unlinked when it answers: the gltf
\* copy after its upload call returned, the bin copy after its own.
UploadUnlinked(no, record_id, hasGltf, hasBin, gltfCall, binCall) ==
    IF record_id = "" \/ ~hasGltf \/ gltfCall = "throw" THEN {}
    ELSE IF gltfCall = "error" \/ ~hasBin \/ binCall = "throw" THEN {TempFile(no, "gltf")}
    ELSE {TempFile(no, "gltf"), TempFile(no, "bin")}

\* POST /buckets/upload/beforemodel
UploadBeforeModel(record_id, hasGltf, hasBin, gltfCall, binCall, dbCall) ==
    LET no == uploadNo + 1
        gltfPath == ModelPath(record_id, "gltf")
        binPath == IF hasBin THEN ModelPath(record_id, "bin") ELSE Null
        gltfDone == record_id # "" /\ hasGltf /\ gltfCall = "ok"
        binDone == gltfDone /\ hasBin /\ binCall = "ok"
        uploaded == gltfDone /\ (hasBin => binDone)
    IN  /\ uploadNo < MaxUploads
        /\ uploadNo' = no
        /\ UNCHANGED mRes
        /\ uReq' = UploadRequest(no, record_id, hasGltf, hasBin)
        /\ uploadsDir' =
               (uploadsDir \cup MulterStored(no, hasGltf, hasBin))
               \ UploadUnlinked(no, record_id, hasGltf, hasBin, gltfCall, binCall)
        /\ objects' =
               objects
               \cup (IF gltfDone THEN {[bucket |-> UploadBucket, path |-> gltfPath]} ELSE {})
               \cup (IF binDone THEN {[bucket |-> UploadBucket, path |-> binPath]} ELSE {})
        /\ dentalModels' =
               IF uploaded /\ dbCall = "ok"
               THEN { m \in dentalModels : m.record_id # record_id }
                    \cup { [record_id |-> record_id, before_model_url |-> gltfPath,
                            before_model_bin_url |-> binPath] }
               ELSE dentalModels
        /\ uRes' =
               IF record_id = "" THEN UploadReply(400, "Missing record_id", Null, Null)
               ELSE IF ~hasGltf THEN UploadReply(500, "TypeError", Null, Null)
               ELSE IF ~uploaded THEN UploadReply(500, "upload failed", Null, Null)
               ELSE IF dbCall # "ok" THEN UploadReply(500, "upsert failed", Null, Null)
               ELSE UploadReply(200, "Model uploaded successfully", gltfPath, binPath)

\* ------------------ GET /buckets/model/:record_id ------------------
FetchBucket == "dental-models"

\* A signed URL names the bucket and the key of the object it addresses.
SignedUrl(bucket, path) == "/object/sign/" \o bucket \o "/" \o path

\* storage.from(bucket).createSignedUrl(path, 600), then ?.signedUrl || null:
\* the Object Store signs the objects it holds.
createSignedUrl(bucket, path) ==
    IF [bucket |-> bucket, path |-> path] \in objects THEN SignedUrl(bucket, path) ELSE Null

ModelReply(status, record_id, gltfUrl, binUrl) ==
    [status |-> status, record_id |-> record_id, gltfUrl |-> gltfUrl, binUrl |-> binUrl]

NoModelReply == ModelReply(0, "", Null, Null)

\* .single() reports an error when no row has the record_id, and the
\* handler throws it.
GetModelReply(record_id) ==
    LET rows == { m \in dentalModels : m.record_id = record_id }
        data == CHOOSE m \in rows : TRUE
    IN  IF Cardinality(rows) # 1 THEN ModelReply(500, record_id, Null, Null)
        ELSE ModelReply(200, record_id,
                        createSignedUrl(FetchBucket, data.before_model_url),
                        IF data.before_model_bin_url # Null
                        THEN createSignedUrl(FetchBucket, data.before_model_bin_url)
                        ELSE Null)

GetModel(record_id) ==
    /\ mRes = NoModelReply
    /\ mRes' = GetModelReply(record_id)
    /\ UNCHANGED <<uploadsDir, objects, dentalModels, uploadNo, uReq, uRes>>

EndModelRequest ==
    /\ mRes # NoModelReply
    /\ mRes' = NoModelReply
    /\ UNCHANGED <<uploadsDir, objects, dentalModels, uploadNo, uReq, uRes>>

InitUpload ==
    /\ mRes = NoModelReply
    /\ uploadsDir = {}
    /\ objects = {}
    /\ dentalModels = {}
    /\ uploadNo = 0
    /\ uReq = UploadRequest(0, "", FALSE, FALSE)
    /\ uRes = UploadReply(0, "", Null, Null)

\* ========================================================================
\* The service catalogue: the services, service_categories and
\* service_category_links tables
\* ========================================================================
ServiceIds == 1..2

CategoryIds == 1..2

\* A name is the sequence of its characters.
EmptyName == <<>>

CatalogNames == { <<"a">>, <<"A">>, <<"b">> }

LowerChar(c) == CASE c = "A" -> "a" [] c = "B" -> "b" [] OTHER -> c

toLowerCase(s) == [i \in 1..Len(s) |-> LowerChar(s[i])]

\* value LIKE pattern: _ stands for one character, % for any run of them
RECURSIVE LikeMatch(_, _)
LikeMatch(value, pattern) ==
    IF pattern = <<>> THEN value = <<>>
    ELSE IF Head(pattern) = "%"
         THEN \/ LikeMatch(value, Tail(pattern))
              \/ value # <<>> /\ LikeMatch(Tail(value), pattern)
    ELSE /\ value # <<>>
         /\ Head(pattern) = "_" \/ Head(pattern) = Head(value)
         /\ LikeMatch(Tail(value), Tail(pattern))

\* .ilike('name', pattern)
ilike(value, pattern) == LikeMatch(toLowerCase(value), toLowerCase(pattern))

Row(id, name, is_deleted) == [id |-> id, name |-> name, is_deleted |-> is_deleted]

LinkRow(service_id, category_id) ==
    [service_id |-> service_id, category_id |-> category_id, is_deleted |-> FALSE]

\* The headers a catalogue request is sent with: none, or Bearer followed
\* by a token the auth router signed for an admin or for a patient.
Bearer == Word("scheme", "none", FALSE, NoPayload)

SignedFor(usertype) == Word("jwt", JWT_SECRET, FALSE, [id |-> 1, usertype |-> usertype])

AdminHeader == [present |-> TRUE, parts |-> <<Bearer, SignedFor("admin")>>]

PatientHeader == [present |-> TRUE, parts |-> <<Bearer, SignedFor("patient")>>]

CatalogHeaders == {AbsentHeader, AdminHeader, PatientHeader}

\* req.body.usertype
BodyUsertypes == {"admin", "patient"}

CatalogRequest(route, header, usertype, name) ==
    [route |-> route, header |-> header, usertype |-> usertype, name |-> name]

CatalogReply(status, message) == [status |-> status, message |-> message]

NoCatalogRequest == CatalogRequest("", AbsentHeader, Null, EmptyName)

CatalogIdle == cRes.status = 0

\* .update(fields).eq('id', id) on a table
UpdateRow(table, id, name, is_deleted) ==
    { IF r.id = id THEN Row(id, name, is_deleted) ELSE r : r \in table }

HasRow(table, id) == \E r \in table : r.id = id

RowOf(table, id) == CHOOSE r \in table : r.id = id

\* The response was sent: req and res are dropped.
EndCatalogRequest ==
    /\ ~CatalogIdle
    /\ cReq' = NoCatalogRequest
    /\ cRes' = CatalogReply(0, "")
    /\ UNCHANGED <<services, categories, links, activityLogs, notifications,
                   nextServiceId, nextCategoryId, inflight, groupedRes>>

\* ------------------ the router guarded by the body's usertype -----------
\* checkAdmin of this router: const { usertype } = req.body
checkAdminBody(usertype) == usertype = "admin"

\* { ...req.body, updated_at }: the columns a PUT body sets besides usertype
EditBodies ==
    { [fields |-> {}, name |-> EmptyName, is_deleted |-> FALSE] }
    \cup { [fields |-> {"name"}, name |-> n, is_deleted |-> FALSE] : n \in CatalogNames }
    \cup { [fields |-> {"is_deleted"}, name |-> EmptyName, is_deleted |-> d] : d \in BOOLEAN }
    \cup { [fields |-> {"name", "is_deleted"}, name |-> n, is_deleted |-> d] :
             n \in CatalogNames, d \in BOOLEAN }

LegacyUnchanged ==
    UNCHANGED <<links, activityLogs, notifications, inflight, groupedRes>>

\* POST /services
LegacyAddService(h, usertype, name, priceNumeric) ==
    /\ CatalogIdle
    /\ cReq' = CatalogRequest("legacy POST /services", h, usertype, name)
    /\ LegacyUnchanged
    /\ UNCHANGED <<categories, nextCategoryId>>
    /\ IF ~checkAdminBody(usertype)
       THEN /\ cRes' = CatalogReply(403, "Admins only")
            /\ UNCHANGED <<services, nextServiceId>>
       ELSE IF name = EmptyName \/ ~priceNumeric
       THEN /\ cRes' = CatalogReply(400, "validation")
            /\ UNCHANGED <<services, nextServiceId>>
       ELSE /\ nextServiceId \in ServiceIds
            /\ services' = services \cup {Row(nextServiceId, name, FALSE)}
            /\ nextServiceId' = nextServiceId + 1
            /\ cRes' = CatalogReply(201, "Service added")

\* PUT /services/:id.  The update carries every field of the body, the
\* usertype field that opened the guard included; accepted tells whether
\* the store takes that column.
LegacyEditService(h, usertype, id, b, accepted) ==
    /\ CatalogIdle
    /\ cReq' = CatalogRequest("legacy PUT /services/:id", h, usertype, b.name)
    /\ LegacyUnchanged
    /\ UNCHANGED <<categories, nextCategoryId, nextServiceId>>
    /\ IF ~checkAdminBody(usertype)
       THEN /\ cRes' = CatalogReply(403, "Admins only")
            /\ UNCHANGED services
       ELSE IF ~accepted \/ ~HasRow(services, id)
       THEN /\ cRes' = CatalogReply(400, "update failed")
            /\ UNCHANGED services
       ELSE /\ services' =
                   UpdateRow(services, id,
                       IF "name" \in b.fields THEN b.name ELSE RowOf(services, id).name,
                       IF "is_deleted" \in b.fields THEN b.is_deleted
                       ELSE RowOf(services, id).is_deleted)
            /\ cRes' = CatalogReply(200, "Service updated")

\* DELETE /services/:id
LegacyDeleteService(h, usertype, id) ==
    /\ CatalogIdle
    /\ cReq' = CatalogRequest("DELETE /services/:id", h, usertype, EmptyName)
    /\ LegacyUnchanged
    /\ UNCHANGED <<categories, nextCategoryId, nextServiceId>>
    /\ IF ~checkAdminBody(usertype)
       THEN /\ cRes' = CatalogReply(403, "Admins only")
            /\ UNCHANGED services
       ELSE IF ~HasRow(services, id)
       THEN /\ cRes' = CatalogReply(400, "no row")
            /\ UNCHANGED services
       ELSE /\ services' = UpdateRow(services, id, RowOf(services, id).name, TRUE)
            /\ cRes' = CatalogReply(200, "Service soft deleted")

\* POST /categories: the validator's result is never read
LegacyAddCategory(h, usertype, name) ==
    /\ CatalogIdle
    /\ cReq' = CatalogRequest("legacy POST /categories", h, usertype, name)
    /\ LegacyUnchanged
    /\ UNCHANGED <<services, nextServiceId>>
    /\ IF ~checkAdminBody(usertype)
       THEN /\ cRes' = CatalogReply(403, "Admins only")
            /\ UNCHANGED <<categories, nextCategoryId>>
       ELSE /\ nextCategoryId \in CategoryIds
            /\ categories' = categories \cup {Row(nextCategoryId, name, FALSE)}
            /\ nextCategoryId' = nextCategoryId + 1
            /\ cRes' = CatalogReply(201, "Category added")

\* PUT /categories/:id
LegacyEditCategory(h, usertype, id, b, accepted) ==
    /\ CatalogIdle
    /\ cReq' = CatalogRequest("legacy PUT /categories/:id", h, usertype, b.name)
    /\ LegacyUnchanged
    /\ UNCHANGED <<services, nextServiceId, nextCategoryId>>
    /\ IF ~checkAdminBody(usertype)
       THEN /\ cRes' = CatalogReply(403, "Admins only")
            /\ UNCHANGED categories
       ELSE IF ~accepted \/ ~HasRow(categories, id)
       THEN /\ cRes' = CatalogReply(400, "update failed")
            /\ UNCHANGED categories
       ELSE /\ categories' =
                   UpdateRow(categories, id,
                       IF "name" \in b.fields THEN b.name ELSE RowOf(categories, id).name,
                       IF "is_deleted" \in b.fields THEN b.is_deleted
                       ELSE RowOf(categories, id).is_deleted)
            /\ cRes' = CatalogReply(200, "Category updated")

\* DELETE /categories/:id
LegacyDeleteCategory(h, usertype, id) ==
    /\ CatalogIdle
    /\ cReq' = CatalogRequest("DELETE /categories/:id", h, usertype, EmptyName)
    /\ LegacyUnchanged
    /\ UNCHANGED <<services, nextServiceId, nextCategoryId>>
    /\ IF ~checkAdminBody(usertype)
       THEN /\ cRes' = CatalogReply(403, "Admins only")
            /\ UNCHANGED categories
       ELSE IF ~HasRow(categories, id)
       THEN /\ cRes' = CatalogReply(400, "no row")
            /\ UNCHANGED categories
       ELSE /\ categories' = UpdateRow(categories, id, RowOf(categories, id).name, TRUE)
            /\ cRes' = CatalogReply(200, "Category soft deleted")

\* ------------------ routes/services.js: services ------------------
\* A request that passed its uniqueness lookup and has not written yet.
Inflight(route, header, id, name, cat) ==
    [route |-> route, header |-> header, id |-> id, name |-> name, cat |-> cat]

NoInflight == Inflight("", AbsentHeader, 0, EmptyName, 0)

\* allow_installment, installment_interval and custom_interval_days
InstallmentInputs == {"off", "monthly", "custom", "noInterval", "customNoDays"}

InstallmentError(inst) ==
    IF inst = "noInterval"
    THEN "installment_interval is required when allow_installment is true"
    ELSE IF inst = "customNoDays"
    THEN "custom_interval_days is required when interval is custom"
    ELSE ""

\* .ilike('name', name).neq('id', exceptId).maybeSingle() on every row
ServiceNameTaken(name, exceptId) ==
    MaybeSingleFound({ r \in services : ilike(r.name, name) /\ r.id # exceptId })

\* The handler up to its insert or update: the reply it sends, or status 0
\* when it goes on to write.  exceptId is 0 for a create.
ServiceCheck(h, exceptId, name, priceNumeric, inst) ==
    LET g == checkAdmin(h)
    IN  IF ~g.next THEN CatalogReply(g.status, g.message)
        ELSE IF name = EmptyName \/ ~priceNumeric THEN CatalogReply(400, "validation")
        ELSE IF ServiceNameTaken(name, exceptId)
        THEN CatalogReply(400, "Service name must be unique")
        ELSE IF InstallmentError(inst) # "" THEN CatalogReply(400, InstallmentError(inst))
        ELSE CatalogReply(0, "")

LogRow(action, table_name, record_id) ==
    [action |-> action, table_name |-> table_name, record_id |-> record_id]

\* POST /services from the insert on
PostServiceWrite(r) ==
    /\ nextServiceId \in ServiceIds
    /\ services' = services \cup {Row(nextServiceId, r.name, FALSE)}
    /\ nextServiceId' = nextServiceId + 1
    /\ links' = IF r.cat # 0 THEN Append(links, LinkRow(nextServiceId, r.cat)) ELSE links
    /\ activityLogs' = activityLogs \cup {LogRow("CREATE", "services", nextServiceId)}
    /\ cReq' = CatalogRequest("POST /services", r.header, Null, r.name)
    /\ cRes' = CatalogReply(201, "Service created")

\* POST /services run from its lookup to its answer, no other request in
\* between; linkCall is what the service_category_links insert resolves
\* with.
PostService(h, name, priceNumeric, cat, inst, linkCall) ==
    LET reply == ServiceCheck(h, 0, name, priceNumeric, inst)
    IN  /\ CatalogIdle
        /\ inflight = NoInflight
        /\ nextServiceId <= MaxServiceId
        /\ cReq' = CatalogRequest("POST /services", h, Null, name)
        /\ UNCHANGED <<categories, notifications, nextCategoryId, inflight, groupedRes>>
        /\ IF reply.status # 0
           THEN /\ cRes' = reply
                /\ UNCHANGED <<services, links, activityLogs, nextServiceId>>
           ELSE /\ services' = services \cup {Row(nextServiceId, name, FALSE)}
                /\ nextServiceId' = nextServiceId + 1
                /\ IF cat # 0 /\ linkCall = "error"
                   THEN /\ cRes' = CatalogReply(400, "link insert failed")
                        /\ UNCHANGED <<links, activityLogs>>
                   ELSE /\ links' = IF cat # 0
                                    THEN Append(links, LinkRow(nextServiceId, cat))
                                    ELSE links
                        /\ activityLogs' =
                               activityLogs \cup {LogRow("CREATE", "services", nextServiceId)}
                        /\ cRes' = CatalogReply(201, "Service created")

\* PUT /services/:id from the update on
PutServiceWrite(r) ==
    /\ UNCHANGED nextServiceId
    /\ cReq' = CatalogRequest("PUT /services/:id", r.header, Null, r.name)
    /\ IF ~HasRow(services, r.id)
       THEN /\ cRes' = CatalogReply(400, "update failed")
            /\ UNCHANGED <<services, links, activityLogs>>
       ELSE /\ services' = UpdateRow(services, r.id, r.name, RowOf(services, r.id).is_deleted)
            /\ links' =
                   IF r.cat # 0
                   THEN Append(SelectSeq(links, LAMBDA l : l.service_id # r.id),
                               LinkRow(r.id, r.cat))
                   ELSE links
            /\ activityLogs' = activityLogs \cup {LogRow("UPDATE", "services", r.id)}
            /\ cRes' = CatalogReply(200, "Service updated")

ServiceRouteWrite(r) ==
    IF r.route = "POST /services" THEN PostServiceWrite(r) ELSE PutServiceWrite(r)

\* ids left for the creates that are under way
RoomForService ==
    nextServiceId + (IF inflight.route = "POST /services" THEN 1 ELSE 0) \in ServiceIds

\* A request arrives while no other is between lookup and write: it is
\* answered at once, or it passes its lookup and waits for its write.
ServiceLookup(route, h, id, name, priceNumeric, cat, inst) ==
    LET reply == ServiceCheck(h, id, name, priceNumeric, inst)
    IN  /\ CatalogIdle
        /\ inflight = NoInflight
        /\ route = "POST /services" => (id = 0 /\ RoomForService)
        /\ route = "PUT /services/:id" => id \in ServiceIds
        /\ UNCHANGED <<services, categories, links, activityLogs, notifications,
                       nextServiceId, nextCategoryId, groupedRes>>
        /\ IF reply.status # 0
           THEN /\ cReq' = CatalogRequest(route, h, Null, name)
                /\ cRes' = reply
                /\ UNCHANGED inflight
           ELSE /\ inflight' = Inflight(route, h, id, name, cat)
                /\ UNCHANGED <<cReq, cRes>>

\* The waiting request writes and is answered.
ServiceWrite ==
    /\ CatalogIdle
    /\ inflight # NoInflight
    /\ ServiceRouteWrite(inflight)
    /\ inflight' = NoInflight
    /\ UNCHANGED <<categories, notifications, nextCategoryId, groupedRes>>

\* A second request runs from lookup to answer while the first one waits.
ServiceConcurrent(route, h, id, name, priceNumeric, cat, inst) ==
    LET reply == ServiceCheck(h, id, name, priceNumeric, inst)
    IN  /\ CatalogIdle
        /\ inflight # NoInflight
        /\ route = "POST /services" => (id = 0 /\ RoomForService)
        /\ route = "PUT /services/:id" => id \in ServiceIds
        /\ UNCHANGED <<categories, notifications, nextCategoryId, groupedRes, inflight>>
        /\ IF reply.status # 0
           THEN /\ cReq' = CatalogRequest(route, h, Null, name)
                /\ cRes' = reply
                /\ UNCHANGED <<services, links, activityLogs, nextServiceId>>
           ELSE ServiceRouteWrite(Inflight(route, h, id, name, cat))

ServiceRoutes == {"POST /services", "PUT /services/:id"}

ServiceBody(h, name, priceNumeric, cat, inst) ==
    [h |-> h, name |-> name, priceNumeric |-> priceNumeric, cat |-> cat, inst |-> inst]

\* The requests sent to the two routes: the well-formed ones under every
\* name, with and without a category, and one request for each way of
\* being refused before the lookup or after it.
ServiceBodies ==
    { ServiceBody(AdminHeader, n, TRUE, c, "off") : n \in CatalogNames, c \in {0, 1} }
    \cup { ServiceBody(h, <<"a">>, TRUE, 0, "off") : h \in {AbsentHeader, PatientHeader} }
    \cup { ServiceBody(AdminHeader, EmptyName, TRUE, 0, "off"),
           ServiceBody(AdminHeader, <<"a">>, FALSE, 0, "off") }
    \cup { ServiceBody(AdminHeader, <<"b">>, TRUE, 0, i) : i \in InstallmentInputs \ {"off"} }

\* ------------------ GET /services/grouped ------------------
\* Names the grouped listing is checked on: differing in case and in
\* surrounding whitespace.
GroupedNames == { <<"a">>, <<"B">>, <<" ", "b">> }

NoCategoryName == <<"N", "o", " ", "C", "a", "t", "e", "g", "o", "r", "y">>

\* String.prototype.trim
RECURSIVE trimStart(_)
trimStart(s) == IF s # <<>> /\ Head(s) = " " THEN trimStart(Tail(s)) ELSE s

RECURSIVE trimEnd(_)
trimEnd(s) ==
    IF s # <<>> /\ s[Len(s)] = " " THEN trimEnd(SubSeq(s, 1, Len(s) - 1)) ELSE s

trim(s) == trimEnd(trimStart(s))

\* Collation weight of a lower-cased character: white space sorts before
\* letters.
CharRank(c) == CASE c = " " -> 0 [] c = "a" -> 1 [] c = "b" -> 2 [] OTHER -> 3

\* x.localeCompare(y) for lower-cased x and y: negative, zero or positive
RECURSIVE localeCompare(_, _)
localeCompare(x, y) ==
    IF x = <<>> /\ y = <<>> THEN 0
    ELSE IF x = <<>> THEN -1
    ELSE IF y = <<>> THEN 1
    ELSE IF CharRank(Head(x)) < CharRank(Head(y)) THEN -1
    ELSE IF CharRank(Head(x)) > CharRank(Head(y)) THEN 1
    ELSE localeCompare(Tail(x), Tail(y))

\* x.localeCompare(y, undefined, { sensitivity: 'base' })
localeCompareBase(x, y) == localeCompare(toLowerCase(x), toLowerCase(y))

\* name.toString().trim().toLowerCase()
TrimLowerKey(name) == toLowerCase(trim(name))

\* The key the "No Category" comparator compares: the name as stored
BaseKey(name) == toLowerCase(name)

\* Array.prototype.sort with a comparator on the items' keys (stable)
RECURSIVE InsertSorted(_, _)
InsertSorted(sorted, p) ==
    IF sorted = <<>> THEN <<p>>
    ELSE IF localeCompare(p.key, Head(sorted).key) < 0 THEN <<p>> \o sorted
    ELSE <<Head(sorted)>> \o InsertSorted(Tail(sorted), p)

sort_Unsorted(pairs) == pairs

RECURSIVE sort(_)
sort(pairs) ==
    IF pairs = <<>> THEN <<>>
    ELSE InsertSorted(sort(SubSeq(pairs, 1, Len(pairs) - 1)), pairs[Len(pairs)])

Items(pairs) == [i \in 1..Len(pairs) |-> pairs[i].item]

SortByTrimLower(rows) ==
    Items(sort([i \in 1..Len(rows) |-> [key |-> TrimLowerKey(rows[i].name), item |-> rows[i]]]))

SortByBase(rows) ==
    Items(sort([i \in 1..Len(rows) |-> [key |-> BaseKey(rows[i].name), item |-> rows[i]]]))

\* .eq('is_deleted', false) on a table
\* The select without its .eq('is_deleted', false) filter
Active_All(table) == table

\* .eq('is_deleted', false)
Active(table) == { r \in table : ~r.is_deleted }

\* The orders in which the store may return a set of rows
Orders(rows) ==
    { o \in [1..Cardinality(rows) -> rows] : \A i, j \in DOMAIN o : i # j => o[i] # o[j] }

\* Rows in ascending id order: Object.values of an object keyed by integer id
RECURSIVE ByIdAscending(_)
ByIdAscending(rows) ==
    IF rows = {} THEN <<>>
    ELSE LET least == CHOOSE r \in rows : \A q \in rows : r.id <= q.id
         IN  <<least>> \o ByIdAscending(rows \ {least})

\* links.find(l => l.service_id === serv.id) answers the last link
FindLink_Last(returned, service_id) ==
    LET own == SelectSeq(returned, LAMBDA l : l.service_id = service_id)
    IN  IF own = <<>> THEN <<>> ELSE <<own[Len(own)]>>

\* links.find(l => l.service_id === serv.id): the first link, or none
FindLink(returned, service_id) ==
    LET own == SelectSeq(returned, LAMBDA l : l.service_id = service_id)
    IN  IF own = <<>> THEN <<>> ELSE <<own[1]>>

\* categoryMap[link.category_id], 0 when there is no link or no such key
CategoryOf(returned, cats, serv) ==
    LET link == FindLink(returned, serv.id)
    IN  IF link # <<>> /\ (\E c \in cats : c.id = link[1].category_id)
        THEN link[1].category_id
        ELSE 0

Bucket(id, name, servs) == [id |-> id, name |-> name, services |-> servs]

GroupedReply(status, category) == [status |-> status, category |-> category]

\* The handler.  servOrder is the order in which the store returned the
\* services; the links come back in their stored order.
GetGrouped(servOrder) ==
    LET cats == Active(categories)
        returned == SelectSeq(links, LAMBDA l : ~l.is_deleted)
        pushed(id) == SelectSeq(servOrder, LAMBDA s : CategoryOf(returned, cats, s) = id)
        catBuckets ==
            [i \in 1..Cardinality(cats) |->
                LET c == ByIdAscending(cats)[i]
                IN  Bucket(c.id, c.name, SortByTrimLower(pushed(c.id)))]
        noCategory == Bucket(0, NoCategoryName, SortByBase(pushed(0)))
        groupedArray == SortByTrimLower(catBuckets)
    IN  /\ servOrder \in Orders(Active(services))
        /\ groupedRes' =
               GroupedReply(200,
                   IF noCategory.services # <<>> THEN Append(groupedArray, noCategory)
                   ELSE groupedArray)
        /\ UNCHANGED <<services, categories, links, activityLogs, notifications,
                       nextServiceId, nextCategoryId, inflight, cReq, cRes>>

\* The tables a grouped request may find: rows with the ids the store
\* handed out so far, under any names and deletion marks.
TablesOver(ids) ==
    UNION { { { Row(i, f[i].name, f[i].is_deleted) : i \in 1..n } :
                f \in [1..n -> [name : GroupedNames, is_deleted : BOOLEAN]] } :
            n \in 0..Cardinality(ids) }

LinkRows == { LinkRow(s, c) : s \in ServiceIds, c \in CategoryIds }

InitGroupedCatalog ==
    /\ services \in TablesOver(ServiceIds)
    /\ categories \in TablesOver(CategoryIds)
    /\ links \in SeqsUpTo(LinkRows, MaxLinks)
    /\ activityLogs = {}
    /\ notifications = {}
    /\ nextServiceId = Cardinality(services) + 1
    /\ nextCategoryId = Cardinality(categories) + 1
    /\ inflight = NoInflight
    /\ cReq = NoCatalogRequest
    /\ cRes = CatalogReply(0, "")
    /\ groupedRes = GroupedReply(0, <<>>)

InitCatalog ==
    /\ services = {}
    /\ categories = {}
    /\ links = <<>>
    /\ activityLogs = {}
    /\ notifications = {}
    /\ nextServiceId = 1
    /\ nextCategoryId = 1
    /\ inflight = NoInflight
    /\ cReq = NoCatalogRequest
    /\ cRes = CatalogReply(0, "")
    /\ groupedRes = GroupedReply(0, <<>>)

\* ========================================================================
\* Specifications
\* ========================================================================
\* ------------------ POST /services/categories, PUT /services/categories/:id
\* req.body.services: absent, a number, an array of numbers, or a string
ServicesInput(kind, ids) == [kind |-> kind, ids |-> ids]

ServicesUndefined == ServicesInput("undefined", <<>>)

ServicesInputs ==
    { ServicesUndefined, ServicesInput("string", <<>>), ServicesInput("number", <<2>>),
      ServicesInput("array", <<>>), ServicesInput("array", <<1>>),
      ServicesInput("array", <<1, 2>>), ServicesInput("array", <<2, 2>>) }

\* body('services').optional().custom(...)
ServicesValid(sv) == sv.kind \in {"undefined", "number", "array"}

Dedupe_KeepsAll(ids) == ids

RECURSIVE Dedupe(_)
\* [...new Set(services.map(Number).filter(Boolean))]
Dedupe(ids) ==
    IF ids = <<>> THEN <<>>
    ELSE LET rest == Dedupe(SubSeq(ids, 1, Len(ids) - 1))
             last == ids[Len(ids)]
         IN  IF last = 0 \/ \E i \in DOMAIN rest : rest[i] = last THEN rest
             ELSE Append(rest, last)

NewLinks(ids, category_id) == [i \in DOMAIN ids |-> LinkRow(ids[i], category_id)]

CategoryNameTaken(name, exceptId) ==
    MaybeSingleFound({ r \in categories : ilike(r.name, name) /\ r.id # exceptId })

NotificationRow(type, name) == [type |-> type, name |-> name]

CategoryFrame == UNCHANGED <<services, nextServiceId, inflight, groupedRes>>

\* .delete().eq('category_id', categoryId), then the insert of the new links
PutCategoryLinks(id, servicesArray) ==
    SelectSeq(links, LAMBDA l : l.category_id # id) \o NewLinks(servicesArray, id)

PostCategory(h, name, sv, linkCall) ==
    LET g == checkAdmin(h)
        servicesArray == IF sv.kind \in {"number", "array"} THEN sv.ids ELSE <<>>
        newCategory == Row(nextCategoryId, name, FALSE)
    IN  /\ CatalogIdle
        /\ nextCategoryId \in CategoryIds
        /\ cReq' = CatalogRequest("POST /services/categories", h, Null, name)
        /\ CategoryFrame
        /\ IF ~g.next
           THEN /\ cRes' = CatalogReply(g.status, g.message)
                /\ UNCHANGED <<categories, nextCategoryId, links, activityLogs, notifications>>
           ELSE IF name = EmptyName \/ ~ServicesValid(sv)
           THEN /\ cRes' = CatalogReply(400, "validation")
                /\ UNCHANGED <<categories, nextCategoryId, links, activityLogs, notifications>>
           ELSE IF CategoryNameTaken(name, 0)
           THEN /\ cRes' = CatalogReply(400, "Category name must be unique")
                /\ UNCHANGED <<categories, nextCategoryId, links, activityLogs, notifications>>
           ELSE /\ categories' = categories \cup {newCategory}
                /\ nextCategoryId' = nextCategoryId + 1
                /\ IF servicesArray # <<>> /\ linkCall = "error"
                   THEN /\ cRes' = CatalogReply(400, "link insert failed")
                        /\ UNCHANGED <<links, activityLogs, notifications>>
                   ELSE /\ links' = links \o NewLinks(servicesArray, newCategory.id)
                        /\ activityLogs' =
                               activityLogs
                               \cup {LogRow("CREATE", "service_categories", newCategory.id)}
                        /\ notifications' =
                               notifications \cup {NotificationRow("category_created", name)}
                        /\ cRes' = CatalogReply(201, "Category created")

\* req.params.id and req.body of a PUT /services/categories/:id, with what
\* the insert into service_category_links resolved with
CategoryEdit(h, id, name, sv, linkCall) ==
    [route |-> "PUT /services/categories/:id", header |-> h, usertype |-> Null,
     name |-> name, id |-> id, services |-> sv, linkCall |-> linkCall]

PutCategory(h, id, name, sv, linkCall) ==
    LET g == checkAdmin(h)
        servicesArray == IF sv.kind = "array" THEN Dedupe(sv.ids) ELSE sv.ids
    IN  /\ CatalogIdle
        /\ cReq' = CategoryEdit(h, id, name, sv, linkCall)
        /\ CategoryFrame
        /\ UNCHANGED nextCategoryId
        /\ IF ~g.next
           THEN /\ cRes' = CatalogReply(g.status, g.message)
                /\ UNCHANGED <<categories, links, activityLogs, notifications>>
           ELSE IF name = EmptyName \/ ~ServicesValid(sv)
           THEN /\ cRes' = CatalogReply(400, "validation")
                /\ UNCHANGED <<categories, links, activityLogs, notifications>>
           ELSE IF CategoryNameTaken(name, id)
           THEN /\ cRes' = CatalogReply(400, "Category name must be unique")
                /\ UNCHANGED <<categories, links, activityLogs, notifications>>
           ELSE IF ~HasRow(categories, id)
           THEN /\ cRes' = CatalogReply(400, "update failed")
                /\ UNCHANGED <<categories, links, activityLogs, notifications>>
           ELSE /\ categories' =
                       UpdateRow(categories, id, name, RowOf(categories, id).is_deleted)
                /\ IF sv.kind # "undefined" /\ servicesArray # <<>> /\ linkCall = "error"
                   THEN /\ links' = SelectSeq(links, LAMBDA l : l.category_id # id)
                        /\ cRes' = CatalogReply(400, "link insert failed")
                        /\ UNCHANGED <<activityLogs, notifications>>
                   ELSE /\ links' = IF sv.kind # "undefined"
                                    THEN PutCategoryLinks(id, servicesArray)
                                    ELSE links
                        /\ activityLogs' =
                               activityLogs \cup {LogRow("UPDATE", "service_categories", id)}
                        /\ notifications' =
                               notifications \cup {NotificationRow("category_updated", name)}
                        /\ cRes' = CatalogReply(200, "Category updated successfully")

\* Two services and one category, the first service created in it (POST
\* /services with category_id 1).
InitCategories ==
    /\ services = {Row(1, <<"a">>, FALSE), Row(2, <<"b">>, FALSE)}
    /\ categories = {Row(1, <<"a">>, FALSE)}
    /\ links = <<LinkRow(1, 1)>>
    /\ activityLogs = {LogRow("CREATE", "service_categories", 1),
                       LogRow("CREATE", "services", 1), LogRow("CREATE", "services", 2)}
    /\ notifications = {NotificationRow("category_created", <<"a">>)}
    /\ nextServiceId = 3
    /\ nextCategoryId = 2
    /\ inflight = NoInflight
    /\ cReq = NoCatalogRequest
    /\ cRes = CatalogReply(0, "")
    /\ groupedRes = GroupedReply(0, <<>>)

\* ------------------ GET /services, GET /categories (routes/buckets.js) ----
ListReply(route, status, rows) == [route |-> route, status |-> status, rows |-> rows]

NoListing == ListReply("", 0, {})

\* .select('*').eq('is_deleted', false) on services
LegacyGetServices ==
    /\ listRes' = ListReply("GET /services", 200, Active(services))
    /\ UNCHANGED catalogVars

\* .select('*').eq('is_deleted', false) on service_categories
LegacyGetCategories ==
    /\ listRes' = ListReply("GET /categories", 200, Active(categories))
    /\ UNCHANGED catalogVars

\* The listing has been sent.
EndListing ==
    /\ listRes # NoListing \/ groupedRes.status # 0
    /\ listRes' = NoListing
    /\ groupedRes' = GroupedReply(0, <<>>)
    /\ UNCHANGED <<services, categories, links, activityLogs, notifications,
                   nextServiceId, nextCategoryId, inflight, cReq, cRes>>

InitListing == listRes = NoListing /\ gSeen = {}

\* ========================================================================
\* routes/users.js: the users router, mounted at /users behind checkAdmin
\* ========================================================================

\* new Date().toISOString()
Stamp == "now"

\* username.toLowerCase(), over the usernames the requests carry
LowerUsername(u) == IF u = "Bob" THEN "bob" ELSE u

\* cap(str) = str.charAt(0).toUpperCase() + str.slice(1).toLowerCase(),
\* over the names the requests carry
cap(str) ==
    IF str = "ann" THEN "Ann"
    ELSE IF str = "LEE" THEN "Lee"
    ELSE str

UserBody(username, email, password, usertype, firstname, lastname) ==
    [username |-> username, email |-> email, password |-> password,
     usertype |-> usertype, firstname |-> firstname, lastname |-> lastname]

NoUserBody == UserBody("", "", "", "", "", "")

\* Bodies of POST /users/add: the username of an active user with a new
\* email, a new user, the e-mail of the seeded credential, a missing field.
AddBodies ==
    { UserBody("amy", "new@x.io", "secret2", "patient", "ann", "LEE"),
      UserBody("Bob", "bob@x.io", "secret2", "dentist", "Ann", "Lee"),
      UserBody("bob", "root@x.io", "secret2", "admin", "Ann", "Lee"),
      UserBody("", "bob@x.io", "secret2", "patient", "Ann", "Lee") }

\* Bodies of PUT /users/edit/:id
PutBodies ==
    { UserBody("amy", "amy@x.io", "", "patient", "Ann", "Lee"),
      UserBody("bob", "root@x.io", "secret2", "admin", "Root", "Admin"),
      UserBody("bob", "bob@x.io", "", "nurse", "Ann", "Lee"),
      UserBody("bob", "bob@x.io", "", "patient", "", "Lee") }

\* What the calls of one request do: each resolves with data ("ok") or with
\* { error } ("error"): the Credential Store call, the users write, the
\* activity_logs insert.
StoreCalls(auth, profile, log) == [auth |-> auth, profile |-> profile, log |-> log]

AllOk == StoreCalls("ok", "ok", "ok")

UserCalls ==
    { AllOk, StoreCalls("error", "ok", "ok"), StoreCalls("ok", "error", "ok"),
      StoreCalls("ok", "ok", "error") }

UsersRequest(route, id, body, calls) ==
    [route |-> route, id |-> id, body |-> body, calls |-> calls]

NoUsersRequest == UsersRequest("", 0, NoUserBody, AllOk)

UsersReply(status, message, list) == [status |-> status, message |-> message, list |-> list]

\* A POST /users/add of routes/users.js between its users insert and its
\* activity_logs insert.
UsrInflight(pc, id, body, calls) == [pc |-> pc, id |-> id, body |-> body, calls |-> calls]

NoUsrInflight == UsrInflight("idle", 0, NoUserBody, AllOk)

\* The outcome of a handler: its answer and the tables as it leaves them.
\* record_id is the users row the handler wrote, 0 when it wrote none.
Outcome(status, message, record_id, us, creds, nextId, logs) ==
    [status |-> status, message |-> message, record_id |-> record_id, users |-> us,
     authUsers |-> creds, nextUserId |-> nextId, activityLogs |-> logs]

Refusal(status, message) ==
    Outcome(status, message, 0, users, authUsers, nextUserId, activityLogs)

ProfileRow(id, b) ==
    [id |-> id, username |-> b.username, email |-> Null, password |-> Null,
     usertype |-> b.usertype, firstname |-> b.firstname, lastname |-> b.lastname,
     is_deleted |-> FALSE, deleted_at |-> Null, fcm_token |-> Null]

Credential(id, email, password) == [id |-> id, email |-> email, password |-> password]

\* auth.admin.createUser: the Credential Store refuses a second credential
\* with the same e-mail.
CreateUserFails(email, call) ==
    call = "error" \/ \E c \in authUsers : c.email = email

\* .upsert({ id, ...columns }): insert, or update the given columns of the
\* row with that id.
Upsert(id, columns) ==
    IF \E r \in users : r.id = id
    THEN { IF r.id = id
           THEN [f \in DOMAIN r |-> IF f \in DOMAIN columns THEN columns[f] ELSE r[f]]
           ELSE r : r \in users }
    ELSE users \cup
         { [f \in DOMAIN ProfileRow(id, NoUserBody) |->
               IF f \in DOMAIN columns THEN columns[f] ELSE ProfileRow(id, NoUserBody)[f]] }

\* ------------------ POST /users/add (part_001) ------------------
UsersAddOutcome(b, calls) ==
    LET matched == { c \in authUsers : c.email = b.email }
        matchedUser == CHOOSE c \in matched : TRUE
        existingProfile == { r \in users : r.id = matchedUser.id }
        reusable == existingProfile = {} \/ \A r \in existingProfile : r.is_deleted
        userIdToUse == IF matched # {} THEN matchedUser.id ELSE nextUserId
        creds == IF matched # {} THEN authUsers
                 ELSE authUsers \cup {Credential(nextUserId, b.email, b.password)}
        nextId == IF matched # {} THEN nextUserId ELSE nextUserId + 1
        columns ==
            [username |-> LowerUsername(b.username), usertype |-> b.usertype,
             firstname |-> cap(b.firstname), lastname |-> cap(b.lastname),
             is_deleted |-> FALSE, deleted_at |-> Null]
        written == Upsert(userIdToUse, columns)
        logs == IF calls.log = "ok"
                THEN activityLogs \cup {LogRow("create_or_restore_user", "users", userIdToUse)}
                ELSE activityLogs
    IN  IF \E f \in DOMAIN b : b[f] = ""
        THEN Refusal(400, "Required fields missing")
        ELSE IF matched # {} /\ ~reusable
        THEN Refusal(400, "Email already in use by an active user.")
        ELSE IF matched = {} /\ calls.auth = "error"
        THEN Refusal(500, "createUser failed")
        ELSE IF calls.profile = "error"
        THEN Outcome(500, "upsert failed", 0, users, creds, nextId, activityLogs)
        ELSE Outcome(201,
                     IF matched # {} THEN "User restored successfully"
                     ELSE "User created successfully",
                     userIdToUse, written, creds, nextId, logs)

\* ------------------ DELETE /users/delete/:id ------------------
\* The activity-log error is only written to the console.
UsersDeleteOutcome(id, calls, message) ==
    LET existingUser == { r \in users : r.id = id /\ ~r.is_deleted }
    IN  IF Cardinality(existingUser) # 1
        THEN Refusal(404, "User not found or already deleted")
        ELSE IF calls.profile = "error"
        THEN Refusal(500, "Error deleting user")
        ELSE Outcome(200, message, id,
                     Upsert(id, [is_deleted |-> TRUE, deleted_at |-> Stamp]),
                     authUsers, nextUserId,
                     IF calls.log = "ok"
                     THEN activityLogs \cup {LogRow("delete_user", "users", id)}
                     ELSE activityLogs)

\* ------------------ PUT /users/edit/:id ------------------
validUsertypes == {"patient", "dentist", "admin"}

UsersEditOutcome(id, b, calls) ==
    LET existing == { r \in users : r.id = id }
        existingUser == CHOOSE r \in existing : TRUE
        usernameExists == { r \in users : r.username = b.username /\ r.id # id }
        authUpdate == b.email # existingUser.email \/ b.password # ""
        authUpdateError ==
            \/ calls.auth = "error"
            \/ ~\E c \in authUsers : c.id = id
            \/ \E c \in authUsers : c.id # id /\ c.email = b.email
        creds ==
            IF authUpdate
            THEN { IF c.id = id
                   THEN Credential(id, b.email,
                                   IF b.password # "" THEN b.password ELSE c.password)
                   ELSE c : c \in authUsers }
            ELSE authUsers
        columns == [username |-> b.username, usertype |-> b.usertype,
                    firstname |-> b.firstname, lastname |-> b.lastname]
        written == Upsert(id, columns)
        changedFields == { f \in DOMAIN columns : existingUser[f] # columns[f] }
        logs == IF changedFields # {} /\ calls.log = "ok"
                THEN activityLogs \cup {LogRow("update_user", "users", id)}
                ELSE activityLogs
    IN  IF \E f \in DOMAIN b \ {"password"} : b[f] = ""
        THEN Refusal(400, "Required fields missing")
        ELSE IF b.usertype \notin validUsertypes
        THEN Refusal(400, "Invalid usertype")
        ELSE IF Cardinality(existing) # 1 THEN Refusal(404, "User not found")
        ELSE IF usernameExists # {} THEN Refusal(409, "Username already exists")
        ELSE IF authUpdate /\ authUpdateError THEN Refusal(500, "auth update failed")
        ELSE IF calls.profile = "error"
        THEN Outcome(500, "Failed to update user", 0, users, creds, nextUserId, activityLogs)
        ELSE Outcome(200, "User updated successfully", id, written, creds, nextUserId, logs)

\* ------------------ GET /users/all ------------------
RECURSIVE NewestFirst(_)
\* .sort((a, b) => new Date(b.created_at) - new Date(a.created_at)): the
\* store numbers the rows in the order of their creation.
NewestFirst(rows) ==
    IF rows = {} THEN <<>>
    ELSE LET newest == CHOOSE r \in rows : \A o \in rows : o.id <= r.id
         IN  <<newest>> \o NewestFirst(rows \ {newest})

\* The profiles GET /users/all selects.
ListedProfiles == Active(users)

Merged ==
    NewestFirst(
        { [id |-> r.id, username |-> r.username, is_deleted |-> r.is_deleted,
           email |-> IF \E c \in authUsers : c.id = r.id
                     THEN (CHOOSE c \in authUsers : c.id = r.id).email
                     ELSE Null] : r \in ListedProfiles })

UsersIdle == usrRes.status = 0

\* The response has been sent; the router takes the next request.
EndUsersRequest ==
    /\ ~UsersIdle
    /\ usrReq' = NoUsersRequest
    /\ usrRes' = UsersReply(0, "", <<>>)
    /\ UNCHANGED <<users, authUsers, nextUserId, activityLogs, softDeleted, usrInflight>>

\* A handler that runs in one piece: the answer and the tables it leaves.
Commit(route, id, b, calls, o) ==
    /\ usrReq' = UsersRequest(route, IF id # 0 THEN id ELSE o.record_id, b, calls)
    /\ usrRes' = UsersReply(o.status, o.message, <<>>)
    /\ users' = o.users
    /\ authUsers' = o.authUsers
    /\ nextUserId' = o.nextUserId
    /\ activityLogs' = o.activityLogs
    /\ softDeleted' =
           IF route = "DELETE /users/delete/:id" /\ o.status = 200
           THEN softDeleted \cup {<<"users", id>>}
           ELSE softDeleted
    /\ UNCHANGED usrInflight

RoomForUser == nextUserId <= MaxUserId

UsersAdd(h, b, calls) ==
    /\ UsersIdle
    /\ checkAdmin(h).next
    /\ RoomForUser
    /\ Commit("POST /users/add", 0, b, calls, UsersAddOutcome(b, calls))

UsersDelete(h, id, calls, message) ==
    /\ UsersIdle
    /\ checkAdmin(h).next
    /\ Commit("DELETE /users/delete/:id", id, NoUserBody, calls,
              UsersDeleteOutcome(id, calls, message))

UsersEdit(h, id, b, calls) ==
    /\ UsersIdle
    /\ checkAdmin(h).next
    /\ Commit("PUT /users/edit/:id", id, b, calls, UsersEditOutcome(id, b, calls))

UsersGetAll(h) ==
    /\ UsersIdle
    /\ checkAdmin(h).next
    /\ usrReq' = UsersRequest("GET /users/all", 0, NoUserBody, AllOk)
    /\ usrRes' = UsersReply(200, "", Merged)
    /\ UNCHANGED <<users, authUsers, nextUserId, activityLogs, softDeleted, usrInflight>>

UsersRoutes ==
    {"GET /users/all", "POST /users/add", "DELETE /users/delete/:id", "PUT /users/edit/:id"}

\* checkAdmin answered: the handler does not run.
UsersRefused(h, route) ==
    /\ UsersIdle
    /\ ~checkAdmin(h).next
    /\ usrReq' = UsersRequest(route, 0, NoUserBody, AllOk)
    /\ usrRes' = UsersReply(checkAdmin(h).status, checkAdmin(h).message, <<>>)
    /\ UNCHANGED <<users, authUsers, nextUserId, activityLogs, softDeleted, usrInflight>>

\* ------------------ POST /users/add (routes/users.js) ------------------
\* Up to the users insert: the credential is created and the profile row
\* inserted, or the request is answered.
UsersAddStrictInsert(h, b, calls) ==
    LET createdUserId == nextUserId
    IN  /\ UsersIdle
        /\ checkAdmin(h).next
        /\ RoomForUser
        /\ usrInflight.pc = "idle"
        /\ UNCHANGED <<activityLogs, softDeleted>>
        /\ IF \E f \in DOMAIN b : b[f] = ""
           THEN /\ usrReq' = UsersRequest("POST /users/add", 0, b, calls)
                /\ usrRes' = UsersReply(400, "Required fields missing", <<>>)
                /\ UNCHANGED <<users, authUsers, nextUserId, usrInflight>>
           ELSE IF CreateUserFails(b.email, calls.auth)
           THEN /\ usrReq' = UsersRequest("POST /users/add", 0, b, calls)
                /\ usrRes' = UsersReply(500, "createUser failed", <<>>)
                /\ UNCHANGED <<users, authUsers, nextUserId, usrInflight>>
           ELSE IF calls.profile = "error"
           THEN \* the credential exists, the insert threw: on to the catch block
                /\ authUsers' = authUsers \cup {Credential(createdUserId, b.email, b.password)}
                /\ nextUserId' = nextUserId + 1
                /\ usrInflight' = UsrInflight("catch", createdUserId, b, calls)
                /\ UNCHANGED <<users, usrReq, usrRes>>
           ELSE /\ authUsers' = authUsers \cup {Credential(createdUserId, b.email, b.password)}
                /\ users' = users \cup {ProfileRow(createdUserId, b)}
                /\ nextUserId' = nextUserId + 1
                /\ usrInflight' = UsrInflight("log", createdUserId, b, calls)
                /\ UNCHANGED <<usrReq, usrRes>>

\* The catch block's two compensating deletes of createdUserId.
RollbackProfiles(createdUserId) == { r \in users : r.id # createdUserId }

RollbackCredentials_Skipped(createdUserId) == authUsers

RollbackCredentials(createdUserId) == { c \in authUsers : c.id # createdUserId }

\* From the activity_logs insert on: 201, or the catch block with its
\* rollback of the profile row and the credential.
UsersAddStrictFinish ==
    LET createdUserId == usrInflight.id
    IN  /\ UsersIdle
        /\ usrInflight.pc \in {"log", "catch"}
        /\ usrInflight' = NoUsrInflight
        /\ usrReq' = UsersRequest("POST /users/add", createdUserId, usrInflight.body,
                                  usrInflight.calls)
        /\ UNCHANGED <<nextUserId, softDeleted>>
        /\ IF usrInflight.pc = "log" /\ usrInflight.calls.log = "ok"
           THEN /\ activityLogs' =
                       activityLogs \cup {LogRow("create_user", "users", createdUserId)}
                /\ usrRes' = UsersReply(201, "User created successfully", <<>>)
                /\ UNCHANGED <<users, authUsers>>
           ELSE /\ users' = RollbackProfiles(createdUserId)
                /\ authUsers' = RollbackCredentials(createdUserId)
                /\ usrRes' = UsersReply(500, IF usrInflight.pc = "catch"
                                              THEN "Failed to save user profile."
                                              ELSE "Failed to write activity log.", <<>>)
                /\ UNCHANGED activityLogs

InitUsers ==
    /\ usrInflight = NoUsrInflight
    /\ usrReq = NoUsersRequest
    /\ usrRes = UsersReply(0, "", <<>>)
    /\ softDeleted = {}

Init == InitGuard /\ InitAuth /\ InitUpload /\ InitCatalog /\ InitUsers /\ InitListing

nonGuardVars == <<authVars, uploadVars, catalogVars, usersVars, listVars, histVars>>

NextGuard ==
    \/ /\ \E h \in Headers : ProtectedRequest(h)
       /\ UNCHANGED nonGuardVars
    \/ /\ EndProtectedRequest
       /\ UNCHANGED nonGuardVars

SpecGuard == Init /\ [][NextGuard]_vars

nonAuthVars == <<guardVars, uploadVars, catalogVars, usersVars, listVars, histVars>>

Next ==
    \/ /\ \E u \in Usernames, p \in Passwords : WebsiteLogin(u, p)
       /\ UNCHANGED nonAuthVars
    \/ /\ \E u \in Usernames, p \in Passwords, f \in FcmTokens : AppLogin(u, p, f, "ok")
       /\ UNCHANGED nonAuthVars
    \/ /\ \E b \in RegisterBodies :
             Register(b.username, b.email, b.password, b.usertype, b.firstname, b.lastname)
       /\ UNCHANGED nonAuthVars
    \/ /\ \E t \in PresentableTokens : RefreshLookup(t)
       /\ UNCHANGED nonAuthVars
    \/ /\ RefreshFinish
       /\ UNCHANGED nonAuthVars
    \/ /\ \E t \in PresentableTokens : Logout(t)
       /\ UNCHANGED nonAuthVars

Spec == Init /\ [][Next]_vars

\* The auth router over a store whose refresh_tokens insert may report an error.
NextAuthFaults ==
    \/ /\ \E u \in Usernames, p \in Passwords, f \in FcmTokens, i \in InsertOutcomes :
             AppLogin(u, p, f, i)
       /\ UNCHANGED nonAuthVars
    \/ /\ \E b \in RegisterBodies :
             Register(b.username, b.email, b.password, b.usertype, b.firstname, b.lastname)
       /\ UNCHANGED nonAuthVars
    \/ /\ \E t \in PresentableTokens : RefreshLookup(t)
       /\ UNCHANGED nonAuthVars
    \/ /\ RefreshFinish
       /\ UNCHANGED nonAuthVars
    \/ /\ \E t \in PresentableTokens : Logout(t)
       /\ UNCHANGED nonAuthVars

SpecAuthFaults == Init /\ [][NextAuthFaults]_vars

nonUploadVars == <<guardVars, authVars, catalogVars, usersVars, listVars, histVars>>

NextUpload ==
    /\ \E record_id \in RecordIds, hasGltf \in BOOLEAN, hasBin \in BOOLEAN,
          gltfCall \in CallOutcomes, binCall \in CallOutcomes, dbCall \in CallOutcomes :
          UploadBeforeModel(record_id, hasGltf, hasBin, gltfCall, binCall, dbCall)
    /\ UNCHANGED nonUploadVars

SpecUpload == Init /\ [][NextUpload]_vars

\* Uploads and fetches of models, one fetch at a time.
FetchIds == {"r1", "r2"}

NextModels ==
    \/ /\ mRes = NoModelReply
       /\ \E record_id \in FetchIds, hasBin \in BOOLEAN, gltfCall \in {"ok", "error"},
             binCall \in {"ok", "error"} :
             UploadBeforeModel(record_id, TRUE, hasBin, gltfCall, binCall, "ok")
       /\ UNCHANGED nonUploadVars
    \/ /\ \E record_id \in FetchIds : GetModel(record_id)
       /\ UNCHANGED nonUploadVars
    \/ /\ EndModelRequest
       /\ UNCHANGED nonUploadVars

SpecModels == Init /\ [][NextModels]_vars

nonCatalogVars == <<guardVars, authVars, uploadVars, usersVars, listVars, histVars>>

NextLegacy ==
    \/ /\ \E h \in {AbsentHeader, AdminHeader}, t \in BodyUsertypes, n \in CatalogNames \cup {EmptyName},
             p \in BOOLEAN : LegacyAddService(h, t, n, p)
       /\ UNCHANGED nonCatalogVars
    \/ /\ \E h \in {AbsentHeader, AdminHeader}, t \in BodyUsertypes, id \in ServiceIds, b \in EditBodies,
             a \in BOOLEAN : LegacyEditService(h, t, id, b, a)
       /\ UNCHANGED nonCatalogVars
    \/ /\ \E h \in {AbsentHeader, AdminHeader}, t \in BodyUsertypes, id \in ServiceIds :
             LegacyDeleteService(h, t, id)
       /\ UNCHANGED nonCatalogVars
    \/ /\ \E h \in {AbsentHeader, AdminHeader}, t \in BodyUsertypes, n \in CatalogNames \cup {EmptyName} :
             LegacyAddCategory(h, t, n)
       /\ UNCHANGED nonCatalogVars
    \/ /\ \E h \in {AbsentHeader, AdminHeader}, t \in BodyUsertypes, id \in CategoryIds, b \in EditBodies,
             a \in BOOLEAN : LegacyEditCategory(h, t, id, b, a)
       /\ UNCHANGED nonCatalogVars
    \/ /\ \E h \in {AbsentHeader, AdminHeader}, t \in BodyUsertypes, id \in CategoryIds :
             LegacyDeleteCategory(h, t, id)
       /\ UNCHANGED nonCatalogVars
    \/ /\ EndCatalogRequest
       /\ UNCHANGED nonCatalogVars

SpecLegacy == Init /\ [][NextLegacy]_vars

NextServices ==
    \/ /\ \E route \in ServiceRoutes, id \in {0} \cup ServiceIds, b \in ServiceBodies :
             ServiceLookup(route, b.h, id, b.name, b.priceNumeric, b.cat, b.inst)
       /\ UNCHANGED nonCatalogVars
    \/ /\ ServiceWrite
       /\ UNCHANGED nonCatalogVars
    \/ /\ \E route \in ServiceRoutes, id \in {0} \cup ServiceIds, b \in ServiceBodies :
             ServiceConcurrent(route, b.h, id, b.name, b.priceNumeric, b.cat, b.inst)
       /\ UNCHANGED nonCatalogVars
    \/ /\ \E t \in BodyUsertypes, id \in ServiceIds : LegacyDeleteService(AbsentHeader, t, id)
       /\ UNCHANGED nonCatalogVars
    \/ /\ EndCatalogRequest
       /\ UNCHANGED nonCatalogVars

SpecServices == Init /\ [][NextServices]_vars

\* POST /services one request at a time, with link inserts that may fail,
\* next to the create of routes/buckets.js, which runs no lookup.
NextServiceFaults ==
    \/ /\ \E n \in CatalogNames \cup {EmptyName}, c \in {0, 1}, x \in InsertOutcomes :
             PostService(AdminHeader, n, TRUE, c, "off", x)
       /\ UNCHANGED nonCatalogVars
    \/ /\ \E n \in CatalogNames : LegacyAddService(AbsentHeader, "admin", n, TRUE)
       /\ UNCHANGED nonCatalogVars
    \/ /\ EndCatalogRequest
       /\ UNCHANGED nonCatalogVars

SpecServiceFaults == Init /\ [][NextServiceFaults]_vars

NextGrouped ==
    /\ \E servOrder \in Orders(Active(services)) : GetGrouped(servOrder)
    /\ UNCHANGED nonCatalogVars

NextCategories ==
    \/ /\ \E h \in {AdminHeader, PatientHeader}, n \in CatalogNames \cup {EmptyName},
             sv \in ServicesInputs, linkCall \in InsertOutcomes :
             PostCategory(h, n, sv, linkCall)
       /\ UNCHANGED nonCatalogVars
    \/ /\ \E h \in {AdminHeader, PatientHeader}, id \in CategoryIds,
             n \in CatalogNames \cup {EmptyName}, sv \in ServicesInputs,
             linkCall \in InsertOutcomes :
             PutCategory(h, id, n, sv, linkCall)
       /\ UNCHANGED nonCatalogVars
    \/ /\ EndCatalogRequest
       /\ UNCHANGED nonCatalogVars

InitCategoriesRouter ==
    InitGuard /\ InitAuth /\ InitUpload /\ InitCategories /\ InitUsers /\ InitListing

SpecCategories == InitCategoriesRouter /\ [][NextCategories]_vars

\* The registrations sent while the users router is at work: a new user, and
\* the username of an active one.
UsersRegisterBodies ==
    { RegisterBody("bob", "bob@x.io", "secret2", "patient", "Ann", "Lee"),
      RegisterBody("amy", "bob@x.io", "secret2", "patient", "Ann", "Lee") }

\* The users router, with the app registration that writes the same table.
nonUsersVars ==
    <<guardVars, uploadVars, refreshTokens, nextToken, rf, loggedOut, services,
      categories, links, notifications, nextServiceId, nextCategoryId, inflight, cReq,
      cRes, groupedRes, listVars, histVars>>

UsersHandlerIdle == UNCHANGED <<nonUsersVars, aReq, aRes, aCalls>>

NextUsers ==
    \/ /\ \E b \in AddBodies, c \in UserCalls : UsersAdd(AdminHeader, b, c)
       /\ UsersHandlerIdle
    \/ /\ \E id \in 1..MaxUserId, c \in UserCalls :
             UsersDelete(AdminHeader, id, c, "User deleted successfully")
       /\ UsersHandlerIdle
    \/ /\ \E id \in 1..MaxUserId, b \in PutBodies, c \in UserCalls :
             UsersEdit(AdminHeader, id, b, c)
       /\ UsersHandlerIdle
    \/ /\ UsersGetAll(AdminHeader)
       /\ UsersHandlerIdle
    \/ /\ \E h \in {AbsentHeader, PatientHeader}, route \in UsersRoutes :
             UsersRefused(h, route)
       /\ UsersHandlerIdle
    \/ /\ UsersIdle
       /\ \E b \in UsersRegisterBodies :
             Register(b.username, b.email, b.password, b.usertype, b.firstname, b.lastname)
       /\ UNCHANGED nonAuthVars
    \/ /\ EndUsersRequest
       /\ UsersHandlerIdle

SpecUsers == Init /\ [][NextUsers]_vars

\* The password routes of routes/auth.js next to the two logins.
NextPasswords ==
    \/ /\ \E id \in 1..MaxUserId, cur \in Passwords, new \in Passwords, c \in InsertOutcomes :
             ChangePassword(id, cur, new, c)
       /\ UNCHANGED nonAuthVars
    \/ /\ \E u \in Usernames, p \in Passwords : AppLogin(u, p, "", "ok")
       /\ UNCHANGED nonAuthVars
    \/ /\ \E u \in Usernames, p \in Passwords : WebsiteLogin(u, p)
       /\ UNCHANGED nonAuthVars

SpecPasswords == Init /\ [][NextPasswords]_vars

\* The users a POST /users/add creates while passwords are set: a dentist
\* and an administrator.
PasswordBodies ==
    { UserBody("Bob", "bob@x.io", "secret2", "dentist", "Ann", "Lee"),
      UserBody("al", "al@x.io", "secret2", "admin", "Al", "Lee") }

PasswordRegisterBodies ==
    { RegisterBody("bob", "bob@x.io", "secret2", "patient", "Ann", "Lee") }

\* Every route that sets a password, next to the two logins; one request
\* of the users router at a time.
NextCredentials ==
    \/ /\ UsersIdle
       /\ \E id \in 1..MaxUserId, cur \in Passwords, new \in Passwords :
             ChangePassword(id, cur, new, "ok")
       /\ UNCHANGED nonAuthVars
    \/ /\ UsersIdle
       /\ \E t \in 0..MaxUserId, new \in Passwords : ResetPassword(t, new, "ok")
       /\ UNCHANGED nonAuthVars
    \/ /\ UsersIdle
       /\ \E b \in PasswordRegisterBodies :
             Register(b.username, b.email, b.password, b.usertype, b.firstname, b.lastname)
       /\ nextUserId <= MaxUserId
       /\ UNCHANGED nonAuthVars
    \/ /\ \E b \in PasswordBodies : UsersAdd(AdminHeader, b, AllOk)
       /\ UsersHandlerIdle
    \/ /\ EndUsersRequest
       /\ UsersHandlerIdle
    \/ /\ \E u \in Usernames, p \in Passwords : AppLogin(u, p, "", "ok")
       /\ UNCHANGED nonAuthVars
    \/ /\ \E u \in Usernames, p \in Passwords : WebsiteLogin(u, p)
       /\ UNCHANGED nonAuthVars

SpecCredentials == Init /\ [][NextCredentials]_vars

\* DELETE /users/delete/:id next to the routes that issue access tokens.
NextDeletedLogin ==
    \/ /\ \E id \in 1..MaxUserId : UsersDelete(AdminHeader, id, AllOk, "User deleted successfully")
       /\ UsersHandlerIdle
    \/ /\ EndUsersRequest
       /\ UsersHandlerIdle
    \/ /\ \E u \in Usernames, p \in Passwords : WebsiteLogin(u, p)
       /\ UNCHANGED nonAuthVars
    \/ /\ \E u \in Usernames, p \in Passwords : AppLogin(u, p, "", "ok")
       /\ UNCHANGED nonAuthVars
    \/ /\ \E t \in PresentableTokens : RefreshLookup(t)
       /\ UNCHANGED nonAuthVars
    \/ /\ RefreshFinish
       /\ UNCHANGED nonAuthVars

SpecDeletedLogin == Init /\ [][NextDeletedLogin]_vars

\* The users router of routes/users.js: GET /all, POST /add, DELETE /delete/:id.
NextUsersStrict ==
    \/ /\ \E b \in AddBodies, c \in UserCalls : UsersAddStrictInsert(AdminHeader, b, c)
       /\ UsersHandlerIdle
    \/ /\ UsersAddStrictFinish
       /\ UsersHandlerIdle
    \/ /\ \E id \in 1..MaxUserId, c \in UserCalls :
             UsersDelete(AdminHeader, id, c, "User soft-deleted successfully")
       /\ UsersHandlerIdle
    \/ /\ UsersGetAll(AdminHeader)
       /\ UsersHandlerIdle
    \/ /\ \E h \in {AbsentHeader, PatientHeader},
             route \in UsersRoutes \ {"PUT /users/edit/:id"} :
             UsersRefused(h, route)
       /\ UsersHandlerIdle
    \/ /\ EndUsersRequest
       /\ UsersHandlerIdle

SpecUsersStrict == Init /\ [][NextUsersStrict]_vars

\* Soft delete, restore and the listing endpoints of the three tables, one
\* request at a time.
Quiet == UsersIdle /\ CatalogIdle /\ listRes = NoListing /\ groupedRes.status = 0

\* The body of a restoring POST /users/add and of a restoring PUT
RestoreBodies == { b \in AddBodies : b.email = SeedCredential.email }

RestoreEdits == { b \in EditBodies : b.fields = {"is_deleted"} }

SoftDeletedAfter(table, id) ==
    softDeleted' = IF cRes'.status = 200 THEN softDeleted \cup {<<table, id>>}
                   ELSE softDeleted

NextSoftDelete ==
    \/ /\ Quiet
       /\ \E id \in UserIds, c \in {AllOk, StoreCalls("ok", "ok", "error")} :
             UsersDelete(AdminHeader, id, c, "User deleted successfully")
       /\ UNCHANGED <<nonUsersVars, aReq, aRes, aCalls>>
    \/ /\ Quiet
       /\ \E b \in RestoreBodies : UsersAdd(AdminHeader, b, AllOk)
       /\ UNCHANGED <<nonUsersVars, aReq, aRes, aCalls>>
    \/ /\ Quiet
       /\ UsersGetAll(AdminHeader)
       /\ UNCHANGED <<nonUsersVars, aReq, aRes, aCalls>>
    \/ /\ EndUsersRequest
       /\ UNCHANGED <<nonUsersVars, aReq, aRes, aCalls>>
    \/ /\ Quiet
       /\ \E id \in ServiceIds :
             /\ LegacyDeleteService(AbsentHeader, "admin", id)
             /\ SoftDeletedAfter("services", id)
       /\ UNCHANGED <<guardVars, authVars, uploadVars, usrInflight, usrReq, usrRes, listVars,
                    histVars>>
    \/ /\ Quiet
       /\ \E id \in CategoryIds :
             /\ LegacyDeleteCategory(AbsentHeader, "admin", id)
             /\ SoftDeletedAfter("service_categories", id)
       /\ UNCHANGED <<guardVars, authVars, uploadVars, usrInflight, usrReq, usrRes, listVars,
                    histVars>>
    \/ /\ Quiet
       /\ \E id \in ServiceIds, b \in RestoreEdits :
             LegacyEditService(AbsentHeader, "admin", id, b, TRUE)
       /\ UNCHANGED nonCatalogVars
    \/ /\ EndCatalogRequest
       /\ UNCHANGED nonCatalogVars
    \/ /\ Quiet
       /\ LegacyGetServices
       /\ UNCHANGED <<guardVars, authVars, uploadVars, usersVars, histVars>>
    \/ /\ Quiet
       /\ LegacyGetCategories
       /\ UNCHANGED <<guardVars, authVars, uploadVars, usersVars, histVars>>
    \/ /\ Quiet
       /\ \E servOrder \in Orders(Active(services)) : GetGrouped(servOrder)
       /\ UNCHANGED nonCatalogVars
    \/ /\ EndListing
       /\ UNCHANGED <<guardVars, authVars, uploadVars, usersVars, histVars>>

SpecSoftDelete == InitCategoriesRouter /\ [][NextSoftDelete]_vars

\* The Access Guard while the users router changes the profile of the
\* token's owner.
GuardProbes == {AbsentHeader, AdminHeader, PatientHeader}

\* PUT /users/edit/1 that turns the administrator into a patient
DemoteBodies == { UserBody("root", "root@x.io", "", "patient", "Root", "Admin") }

OwnerProfile(h) ==
    { [is_deleted |-> r.is_deleted, usertype |-> r.usertype] :
        r \in { u \in users : u.id = HeaderToken(h).payload.id } }

GuardQuiet == gRes.status = 0 /\ UsersIdle

NextGuardStore ==
    \/ /\ GuardQuiet
       /\ \E h \in GuardProbes :
             /\ ProtectedRequest(h)
             /\ gSeen' = gSeen \cup { [header |-> h, status |-> gRes'.status,
                                       profile |-> OwnerProfile(h)] }
       /\ UNCHANGED <<authVars, uploadVars, catalogVars, usersVars, listVars>>
    \/ /\ EndProtectedRequest
       /\ UNCHANGED nonGuardVars
    \/ /\ GuardQuiet
       /\ \E id \in UserIds : UsersDelete(AdminHeader, id, AllOk, "User deleted successfully")
       /\ UsersHandlerIdle
    \/ /\ GuardQuiet
       /\ \E id \in UserIds, b \in DemoteBodies : UsersEdit(AdminHeader, id, b, AllOk)
       /\ UsersHandlerIdle
    \/ /\ GuardQuiet
       /\ \E b \in RestoreBodies : UsersAdd(AdminHeader, b, AllOk)
       /\ UsersHandlerIdle
    \/ /\ EndUsersRequest
       /\ UsersHandlerIdle

SpecGuardStore == Init /\ [][NextGuardStore]_vars

InitGrouped ==
    InitGuard /\ InitAuth /\ InitUpload /\ InitGroupedCatalog /\ InitUsers /\ InitListing

SpecGrouped == InitGrouped /\ [][NextGrouped]_vars

\* ========================================================================
\* Properties
\* ========================================================================

\* ------------------------------------------------------------------------
\* C1: once POST /auth/logout has answered 200 for refresh token t, every
\* POST /auth/refresh-token that afterwards presents t is answered 403 at
\* its refresh_tokens lookup and issues no access token, whatever logins,
\* registrations, refreshes and logouts happened in between.
\* ------------------------------------------------------------------------
\* A step of a refresh request at its refresh_tokens lookup: it answers
\* there, or goes on to the users lookup.
RefreshAnsweredAtLookup ==
    rf.pc = "idle" /\ rf' = rf /\ aReq'.route = "refresh-token"

RefreshPassedLookup == rf.pc = "idle" /\ rf'.pc = "user"

C1_LoggedOutTokenRefused ==
    [][ /\ (RefreshAnsweredAtLookup /\ aReq'.token \in loggedOut) =>
              (aRes'.status = 403 /\ aRes'.accessToken = NoAccess)
        /\ RefreshPassedLookup => rf'.token \notin loggedOut ]_vars

\* An issued token was logged out and then refused, while a token issued
\* after it is still in the table.
C1_Witness ==
    /\ aReq.route = "refresh-token"
    /\ aReq.token >= 1
    /\ aReq.token \in loggedOut
    /\ aRes.status = 403
    /\ \E r \in refreshTokens : r.token > aReq.token

\* ------------------------------------------------------------------------
\* C2: on both login routes a well-formed request naming an existing
\* username whose usertype the route does not admit (not admin on
\* /auth/website/login; neither patient nor dentist on /auth/app/login) is
\* answered 403 for every password, with no access token and no
\* refresh_tokens row produced.
\* ------------------------------------------------------------------------
RouteAdmits(route, usertype) ==
    IF route = "website/login" THEN usertype = "admin"
    ELSE usertype \in {"patient", "dentist"}

NamesNotAdmitted(route, u) ==
    /\ Cardinality(UsersWhere("username", u)) = 1
    /\ \A r \in UsersWhere("username", u) : ~RouteAdmits(route, r.usertype)

RefusedByRole ==
    /\ aRes'.status = 403
    /\ aRes'.accessToken = NoAccess
    /\ aRes'.refreshToken = MissingToken
    /\ refreshTokens' = refreshTokens
    /\ nextToken' = nextToken

\* A step that answers a login request (every step of the router but the
\* refresh lookup that goes on records the request it answers).
LoginAnswered(route) == rf' = rf /\ aReq'.route = route

C2_WrongRoleIs403 ==
    [][ \A route \in {"website/login", "app/login"} :
            ( /\ LoginAnswered(route)
              /\ LoginValid(aReq'.username, aReq'.password)
              /\ NamesNotAdmitted(route, aReq'.username) ) => RefusedByRole ]_vars

\* A patient presented her correct password on the admin route and got 403.
C2_Witness ==
    /\ aReq.route = "website/login"
    /\ aRes.status = 403
    /\ \E r \in users :
          /\ r.username = aReq.username
          /\ r.usertype = "patient"
          /\ r.password = Hash(aReq.password)

\* ------------------------------------------------------------------------
\* C3: checkAdmin lets the handler run only for a header whose second part
\* is a token that verifies against JWT_SECRET, is not expired and decodes
\* to usertype admin; a missing or malformed header is answered 401 "No
\* token", a token that fails verification (also an expired one) 401
\* "Invalid token", a verified token of another role 403; a rejected
\* request makes no store call, and an accepted one has req.user set to
\* the decoded payload.
\* ------------------------------------------------------------------------
GuardTokenVerifies(h) ==
    /\ h.present
    /\ Len(h.parts) >= 2
    /\ h.parts[2].kind = "jwt"
    /\ h.parts[2].key = JWT_SECRET
    /\ ~h.parts[2].expired

GuardMalformed(h) ==
    \/ ~h.present
    \/ Len(h.parts) < 2
    \/ h.parts[2].kind = "empty"

C3_GuardContract ==
    gRes.status # 0 =>
        /\ (gCalls # {}) <=>
              (GuardTokenVerifies(gHeader) /\ gHeader.parts[2].payload.usertype = "admin")
        /\ GuardMalformed(gHeader) =>
              (gRes.status = 401 /\ gRes.message = "No token")
        /\ (~GuardMalformed(gHeader) /\ ~GuardTokenVerifies(gHeader)) =>
              (gRes.status = 401 /\ gRes.message = "Invalid token")
        /\ (GuardTokenVerifies(gHeader) /\ gHeader.parts[2].payload.usertype # "admin") =>
              gRes.status = 403
        /\ gRes.status # 200 => (gCalls = {} /\ gUser = NoPayload)
        /\ gRes.status = 200 => gUser = gHeader.parts[2].payload

\* An expired admin token signed with the secret was rejected as invalid.
C3_Witness ==
    /\ gHeader.present
    /\ Len(gHeader.parts) = 2
    /\ gHeader.parts[2].kind = "jwt"
    /\ gHeader.parts[2].key = JWT_SECRET
    /\ gHeader.parts[2].expired
    /\ gHeader.parts[2].payload.usertype = "admin"
    /\ gRes.status = 401
    /\ gRes.message = "Invalid token"

\* ------------------------------------------------------------------------
\* C4: a handler that creates, edits or soft-deletes a service or a
\* category changes the store only for a request whose Authorization
\* header carries a token that verifies and decodes to usertype admin; a
\* body field usertype: admin without such a token changes nothing.
\* ------------------------------------------------------------------------
C4_MutationNeedsAdminToken ==
    [][ (services' # services \/ categories' # categories \/ links' # links) =>
            /\ GuardTokenVerifies(cReq'.header)
            /\ cReq'.header.parts[2].payload.usertype = "admin" ]_vars

\* ------------------------------------------------------------------------
\* C5: the user object of every 201 response of POST /auth/app/register
\* has no password field, and none of its fields holds the request's
\* password or the hash stored for it.
\* ------------------------------------------------------------------------
C5_RegisterResponseHasNoPassword ==
    (aReq.route = "app/register" /\ aRes.status = 201) =>
        /\ "password" \notin DOMAIN aRes.user
        /\ \A f \in DOMAIN aRes.user :
              ToString(aRes.user[f]) \notin
                  { ToString(aReq.password), ToString(Hash(aReq.password)) }

\* A registration was accepted: the row is stored with the hash, and the
\* response carries the other columns.
C5_Witness ==
    /\ aReq.route = "app/register"
    /\ aRes.status = 201
    /\ "username" \in DOMAIN aRes.user
    /\ \E r \in users : r.id = aRes.user.id /\ r.password = Hash(aReq.password)

\* ------------------------------------------------------------------------
\* C6: when POST /buckets/upload/beforemodel has answered, no temporary
\* file stored for that request is left under uploads/, on any path.
\* ------------------------------------------------------------------------
C6_TempFilesRemoved ==
    uRes.status # 0 => \A f \in uploadsDir : f.req # uReq.no

\* ------------------------------------------------------------------------
\* C7: in a 200 response of GET /services/grouped every non-deleted
\* service appears exactly once, in the bucket of the category its first
\* returned link names when that category is not deleted and in the "No
\* Category" bucket otherwise (no link, or a first link to a deleted
\* category, whatever later links say); no deleted service and no bucket
\* of a deleted category appears.
\* ------------------------------------------------------------------------
OwnLinks(s) == SelectSeq(links, LAMBDA l : l.service_id = s.id /\ ~l.is_deleted)

DecidingCategory(s) ==
    IF /\ OwnLinks(s) # <<>>
       /\ \E c \in categories : c.id = OwnLinks(s)[1].category_id /\ ~c.is_deleted
    THEN OwnLinks(s)[1].category_id
    ELSE 0

Places(id) ==
    { p \in (DOMAIN groupedRes.category) \X (1..Cardinality(services)) :
        /\ p[2] \in DOMAIN groupedRes.category[p[1]].services
        /\ groupedRes.category[p[1]].services[p[2]].id = id }

C7_EachServiceInItsBucket ==
    groupedRes.status = 200 =>
        /\ \A s \in services :
              IF s.is_deleted THEN Places(s.id) = {}
              ELSE /\ Cardinality(Places(s.id)) = 1
                   /\ \A p \in Places(s.id) :
                         /\ groupedRes.category[p[1]].id = DecidingCategory(s)
                         /\ groupedRes.category[p[1]].services[p[2]] = s
        /\ \A i \in DOMAIN groupedRes.category :
              /\ groupedRes.category[i].id # 0 =>
                    \E c \in categories :
                        /\ c.id = groupedRes.category[i].id
                        /\ c.name = groupedRes.category[i].name
                        /\ ~c.is_deleted
              /\ \A j \in DOMAIN groupedRes.category[i].services :
                    groupedRes.category[i].services[j] \in services

\* A service with two links, the first to a deleted category and the
\* second to an active one, was listed under "No Category".
C7_Witness ==
    /\ groupedRes.status = 200
    /\ \E s \in services :
          /\ ~s.is_deleted
          /\ Len(OwnLinks(s)) = 2
          /\ \E c \in categories : c.id = OwnLinks(s)[1].category_id /\ c.is_deleted
          /\ \E c \in categories : c.id = OwnLinks(s)[2].category_id /\ ~c.is_deleted
          /\ \E p \in Places(s.id) : groupedRes.category[p[1]].id = 0

\* ------------------------------------------------------------------------
\* C8: in a 200 response of GET /services/grouped the category buckets,
\* and the services inside each of them, are in ascending order of the
\* name with surrounding white space removed and letters lower-cased; the
\* services of "No Category" are in ascending order of the lower-cased
\* name as stored; every non-deleted category has exactly one bucket, also
\* when it holds no service; and "No Category" is present, as the last
\* element, exactly when some non-deleted service is uncategorized.
\* ------------------------------------------------------------------------
SortedBy(rows, Key(_)) ==
    \A i, j \in DOMAIN rows :
        i < j => localeCompare(Key(rows[i].name), Key(rows[j].name)) <= 0

RealBuckets == SelectSeq(groupedRes.category, LAMBDA b : b.id # 0)

SyntheticBuckets == SelectSeq(groupedRes.category, LAMBDA b : b.id = 0)

BucketsComplete ==
    /\ \A c \in Active(categories) :
          Cardinality({ i \in DOMAIN groupedRes.category :
                          groupedRes.category[i].id = c.id }) = 1
    /\ (\E s \in Active(services) : DecidingCategory(s) = 0) <=>
          /\ groupedRes.category # <<>>
          /\ groupedRes.category[Len(groupedRes.category)].id = 0
    /\ \A i \in DOMAIN groupedRes.category :
          groupedRes.category[i].id = 0 => i = Len(groupedRes.category)

NamesUnique(table) ==
    \A r, q \in Active(table) :
        r.id # q.id => toLowerCase(r.name) # toLowerCase(q.name)

C9_ActiveNamesUnique == NamesUnique(services) /\ NamesUnique(categories)

\* ------------------------------------------------------------------------
\* C10: a create request is refused as a duplicate only when a
\* non-deleted row holds its name case-insensitively; a name held by
\* soft-deleted rows alone is accepted.
\* ------------------------------------------------------------------------
C10_DeletedNameIsFree ==
    [][ ( /\ cRes.status = 0
          /\ cReq'.route = "POST /services"
          /\ cRes'.message = "Service name must be unique" ) =>
            \E r \in Active(services) : toLowerCase(r.name) = toLowerCase(cReq'.name) ]_vars

\* ------------------------------------------------------------------------
\* C16: no step of POST /auth/refresh-token inserts, changes or deletes a
\* refresh_tokens row; a row leaves the table only in a logout that
\* presents its token; and as long as the row is there every refresh that
\* presents the token passes the lookup and, the owner's profile existing,
\* is answered 200 with a 15-minute access token for the owner.
\* ------------------------------------------------------------------------
RefreshStep == rf' # rf \/ RefreshAnsweredAtLookup

C16_RefreshKeepsTokens ==
    [][ /\ RefreshStep => refreshTokens' = refreshTokens
        /\ \A r \in refreshTokens :
              r \notin refreshTokens' =>
                  (aReq'.route = "logout" /\ aReq'.token = r.token)
        /\ RefreshAnsweredAtLookup =>
              \A r \in refreshTokens : r.token # aReq'.token
        /\ (rf.pc = "user" /\ rf'.pc = "idle") =>
              \A u \in users :
                  u.id = rf.user_id =>
                      /\ aRes'.status = 200
                      /\ aRes'.accessToken = jwtSign(u, "15m") ]_vars

\* A token was exchanged for an access token, its row is still in the
\* table, and a second exchange of the same token has passed the lookup.
C16_Witness ==
    /\ aReq.route = "refresh-token"
    /\ aRes.status = 200
    /\ rf.pc = "user"
    /\ rf.token = aReq.token
    /\ \E r \in refreshTokens : r.token = aReq.token

\* ------------------------------------------------------------------------
\* C17: POST /auth/logout with a token is answered 200 "Logged out
\* successfully" whether or not the token has a row; afterwards the table
\* holds the rows it held minus those of the token, so a logout with a
\* token that has no row (never issued, or logged out before) leaves the
\* table as it was, and nothing else in the stores changes.
\* ------------------------------------------------------------------------
LogoutAnswered == rf' = rf /\ aReq'.route = "logout" /\ aReq'.token # MissingToken

C17_LogoutIdempotent ==
    [][ LogoutAnswered =>
            /\ aRes'.status = 200
            /\ aRes'.message = "Logged out successfully"
            /\ refreshTokens' = { r \in refreshTokens : r.token # aReq'.token }
            /\ (\A r \in refreshTokens : r.token # aReq'.token) =>
                  refreshTokens' = refreshTokens
            /\ \A r \in refreshTokens' : r.token # aReq'.token
            /\ UNCHANGED <<users, authUsers>> ]_vars

\* A logout with a token that was never issued was answered 200 while the
\* table holds another token's row.
C17_Witness ==
    /\ aReq.route = "logout"
    /\ aReq.token = ForgedToken
    /\ aRes.status = 200
    /\ aRes.message = "Logged out successfully"
    /\ refreshTokens # {}

\* ---- C20 ----
WebsiteLoginAnswered == rf' = rf /\ aReq'.route = "website/login"

Profiles(u) == UsersWhere("username", u)

AdminProfile(u) ==
    /\ Cardinality(Profiles(u)) = 1
    /\ \A r \in Profiles(u) : r.usertype = "admin"

CredentialAccepts(u, p) ==
    \A r \in Profiles(u) : \E c \in authUsers : c.id = r.id /\ c.password = p

IsPrefix(s, t) == Len(s) <= Len(t) /\ SubSeq(t, 1, Len(s)) = s

\* C20: POST /auth/website/login signs its 24-hour token only as the last
\* of its calls, after the profile lookup found a row, the row's usertype is
\* admin and the Credential Store accepted the password for the credential
\* with the profile's id, in that order; when a check fails the answer
\* carries no token and none of the later calls is made.
C20_TokenAfterThreeChecks ==
    [][ WebsiteLoginAnswered =>
          LET u == aReq'.username
              p == aReq'.password
              steps == <<"users.select", "auth.admin.getUserById",
                         "auth.signInWithPassword", "jwt.sign">>
              passed == /\ LoginValid(u, p)
                        /\ AdminProfile(u)
                        /\ CredentialAccepts(u, p)
          IN  /\ IsPrefix(aCalls', steps)
              /\ (aRes'.accessToken # NoAccess) <=> passed
              /\ (aRes'.status = 200) <=> passed
              /\ passed => /\ aCalls' = steps
                           /\ aRes'.accessToken.expiresIn = "24h"
                           /\ \A r \in Profiles(u) : aRes'.accessToken.id = r.id
              /\ ~LoginValid(u, p) => aCalls' = <<>>
              /\ (LoginValid(u, p) /\ ~AdminProfile(u)) =>
                     /\ aCalls' = <<"users.select">>
                     /\ aRes'.status =
                            IF Cardinality(Profiles(u)) = 1 THEN 403 ELSE 400
              /\ (LoginValid(u, p) /\ AdminProfile(u) /\ ~CredentialAccepts(u, p)) =>
                     /\ aRes'.status = 400
                     /\ Len(aCalls') \in 2..3
              /\ UNCHANGED <<users, authUsers, refreshTokens>> ]_vars

C20_Witness ==
    /\ aReq.route = "website/login"
    /\ aRes.status = 200
    /\ aRes.accessToken.expiresIn = "24h"
    /\ aCalls[Len(aCalls)] = "jwt.sign"

C20_WitnessRefused ==
    /\ aReq.route = "website/login"
    /\ aRes.status = 400
    /\ aCalls = <<"users.select", "auth.admin.getUserById", "auth.signInWithPassword">>

\* ---- C15 ----
\* C15: every 200 answer of POST /auth/app/login carries a refresh token that
\* is a row of refresh_tokens owned by the user who logged in, also when the
\* insert of that row reported an error.
C15_LoginTokenIsStored ==
    (aReq.route = "app/login" /\ aRes.status = 200) =>
        \E r \in refreshTokens :
            r.token = aRes.refreshToken /\ r.user_id = aRes.user.id

\* ---- C19 ----
UploadInvalid == uReq.record_id = "" \/ ~uReq.gltf

\* C19: a request that fails input validation is answered 400 before any
\* I/O; on the upload route, a request without record_id or without a gltf
\* part is answered 400 and no file of that request was written to uploads/.
C19_InvalidAnswered400BeforeIO ==
    (uRes.status # 0 /\ UploadInvalid) =>
        /\ uRes.status = 400
        /\ MulterStored(uReq.no, uReq.gltf, uReq.bin) = {}
        /\ \A f \in uploadsDir : f.req # uReq.no

\* ---- C12 ----
Ids(table) == { r.id : r \in table }

\* C12: no handler removes a row from users, services or service_categories:
\* over every step, also of a request that fails partway, the ids of each
\* table only grow.
C12_RowsNeverRemoved ==
    [][ /\ Ids(users) \subseteq Ids(users')
        /\ Ids(services) \subseteq Ids(services')
        /\ Ids(categories) \subseteq Ids(categories') ]_vars

\* ---- C18 ----
\* The request changed the users table and only its activity_logs insert
\* reported an error.
OnlyLogFailed ==
    /\ usrRes.status # 0
    /\ usrReq.calls = StoreCalls("ok", "ok", "error")
    /\ usrReq.route \in {"POST /users/add", "DELETE /users/delete/:id"}
    /\ usrReq.id # 0
    /\ usrRes.status \notin {400, 401, 403, 404, 409}

\* C18: a failed activity_logs insert never fails the parent request: the
\* handler answers with its success status and the mutation stays committed.
C18_LogFailureIgnored ==
    OnlyLogFailed =>
        /\ usrRes.status \in {200, 201}
        /\ \E r \in users : r.id = usrReq.id

\* ---- C14 ----
\* The e-mail of a user: the column of the profile row when it is set (app
\* registration), otherwise the e-mail of the credential with the same id.
EmailOf(r) ==
    IF r.email # Null THEN r.email
    ELSE IF \E c \in authUsers : c.id = r.id
    THEN (CHOOSE c \in authUsers : c.id = r.id).email
    ELSE Null

ActiveUsers == { r \in users : ~r.is_deleted }

\* C14: after any sequence of POST /auth/app/register, POST /users/add and
\* PUT /users/edit/:id requests no two active users share a username and no
\* two share an e-mail.
C14_ActiveUsersUnique ==
    \A r1, r2 \in ActiveUsers :
        r1.id # r2.id =>
            /\ r1.username # r2.username
            /\ (EmailOf(r1) # Null => EmailOf(r1) # EmailOf(r2))

\* ---- C13 ----
LinksOf(service_id) ==
    { i \in DOMAIN links : links[i].service_id = service_id /\ ~links[i].is_deleted }

\* C13: after any sequence of category create and edit requests every
\* service has at most one row in service_category_links.
C13_OneLinkPerService ==
    \A s \in services : Cardinality(LinksOf(s.id)) <= 1

\* ---- C11 ----
TableOf(name) ==
    IF name = "users" THEN users
    ELSE IF name = "services" THEN services
    ELSE categories

\* The ids of the rows of a table the listing responses on display carry.
ListedIds(name) ==
    IF name = "users" THEN { usrRes.list[i].id : i \in DOMAIN usrRes.list }
    ELSE IF name = "services"
    THEN { r.id : r \in IF listRes.route = "GET /services" THEN listRes.rows ELSE {} }
         \cup { groupedRes.category[p[1]].services[p[2]].id :
                 p \in { q \in (DOMAIN groupedRes.category) \X (1..Cardinality(services)) :
                           q[2] \in DOMAIN groupedRes.category[q[1]].services } }
    ELSE { r.id : r \in IF listRes.route = "GET /categories" THEN listRes.rows ELSE {} }
         \cup ({ groupedRes.category[i].id : i \in DOMAIN groupedRes.category } \ {0})

Tables == {"users", "services", "service_categories"}

\* A listing of the table has been answered.
Listed(name) ==
    IF name = "users" THEN usrReq.route = "GET /users/all" /\ usrRes.status = 200
    ELSE \/ groupedRes.status = 200
         \/ listRes.route = (IF name = "services" THEN "GET /services" ELSE "GET /categories")

C21_DecisionFromTokenOnly ==
    /\ \A p, q \in gSeen : p.header = q.header => p.status = q.status
    /\ gRes.status \notin {0, 200} => gCalls = {}

\* The admin token was accepted while its owner was active and again after
\* the owner was soft deleted or turned into a patient.
C21_Witness ==
    /\ \E p, q \in gSeen :
          /\ p.header = AdminHeader /\ q.header = AdminHeader
          /\ p.status = 200 /\ q.status = 200
          /\ p.profile = {[is_deleted |-> FALSE, usertype |-> "admin"]}
          /\ q.profile = {[is_deleted |-> TRUE, usertype |-> "patient"]}
    /\ \E p \in gSeen : p.header = PatientHeader /\ p.status = 403

\* ---- C22 ----
\* POST /users/add was answered 500 after createUser had returned an id.
AddFailedAfterCreate ==
    /\ usrReq.route = "POST /users/add"
    /\ usrRes.status = 500
    /\ usrReq.id # 0

\* C22: when POST /users/add of routes/users.js is answered 500 after the
\* credential was created (the profile insert or the activity-log insert
\* failed), neither a profile row nor a credential with the created id is
\* left.
C22_FailedAddLeavesNothing ==
    AddFailedAfterCreate =>
        /\ \A r \in users : r.id # usrReq.id
        /\ \A c \in authUsers : c.id # usrReq.id

C22_Witness ==
    /\ AddFailedAfterCreate
    /\ usrRes.message = "Failed to write activity log."
    /\ usrReq.calls = StoreCalls("ok", "ok", "error")
    /\ \A r \in users : r.id # usrReq.id
    /\ \A c \in authUsers : c.id # usrReq.id
    /\ nextUserId > usrReq.id

C22_WitnessInsertFailed ==
    /\ AddFailedAfterCreate
    /\ usrRes.message = "Failed to save user profile."
    /\ \A c \in authUsers : c.id # usrReq.id

\* ---- C23 ----
\* The step is a PATCH /auth/change-password being answered.
ChangePasswordAnswered == aReq'.route = "change-password" /\ UNCHANGED <<usrReq, usrRes>>

\* The password column of the row with this id
StoredPassword(us, id) == { r.password : r \in { x \in us : x.id = id } }

\* C23: PATCH /auth/change-password changes the stored password of userId
\* only when currentPassword matched the stored one, and then to the hash of
\* newPassword; answered 404 (no such user) or 400 (current password
\* incorrect), it leaves every stored password as it was.
C23_PasswordChangedOnlyAfterMatch ==
    [][ChangePasswordAnswered =>
          /\ aRes'.status \in {404, 400} => users' = users
          /\ users' # users =>
                /\ aRes'.status = 200
                /\ StoredPassword(users, aReq'.userId) = {Hash(aReq'.password)}
                /\ StoredPassword(users', aReq'.userId) = {Hash(aReq'.newPassword)}
                /\ \A r \in users : r.id # aReq'.userId => r \in users']_vars

C23_Witness ==
    /\ aReq.route = "change-password"
    /\ aRes.message = "Current password incorrect"
    /\ aReq.password = "secret1"
    /\ StoredPassword(users, aReq.userId) = {Hash("secret2")}

C23_WitnessNotFound ==
    /\ aReq.route = "change-password"
    /\ aRes.status = 404
    /\ StoredPassword(users, 2) = {Hash("secret2")}

\* ---- C24 ----
\* POST /services was answered with the link insert's error.
LinkInsertFailed ==
    /\ cReq.route = "POST /services"
    /\ cRes = CatalogReply(400, "link insert failed")

\* The id of the row that request inserted
CreatedService == nextServiceId - 1

\* C24: when POST /services is answered 400 because the category-link
\* insert failed, the service row it inserted is still in the table, no
\* activity-log row was written for it, and the same request sent again is
\* rejected by the name-uniqueness check.
C24_LinkFailureLeavesRowAndBlocksRetry ==
    LinkInsertFailed =>
        /\ Row(CreatedService, cReq.name, FALSE) \in services
        /\ LogRow("CREATE", "services", CreatedService) \notin activityLogs
        /\ \A i \in 1..Len(links) : links[i].service_id # CreatedService
        /\ ServiceCheck(cReq.header, 0, cReq.name, TRUE, "off")
               = CatalogReply(400, "Service name must be unique")

\* The part of C24 that holds: the committed row without link and log.
C24_LinkFailureLeavesRow ==
    LinkInsertFailed =>
        /\ Row(CreatedService, cReq.name, FALSE) \in services
        /\ LogRow("CREATE", "services", CreatedService) \notin activityLogs
        /\ \A i \in 1..Len(links) : links[i].service_id # CreatedService

C24_RetryNotRejected ==
    /\ LinkInsertFailed
    /\ Row(CreatedService, cReq.name, FALSE) \in services
    /\ ServiceCheck(cReq.header, 0, cReq.name, TRUE, "off") = CatalogReply(0, "")

C24_RetryRejected ==
    /\ LinkInsertFailed
    /\ ServiceCheck(cReq.header, 0, cReq.name, TRUE, "off")
           = CatalogReply(400, "Service name must be unique")

\* ---- C25 ----
\* The step is a login or a refresh being answered with an access token.
TokenIssued ==
    /\ <<aReq, aRes, nextToken>>' # <<aReq, aRes, nextToken>>
    /\ aReq'.route \in {"website/login", "app/login", "refresh-token"}
    /\ aRes'.accessToken # NoAccess

\* C25: no website login, app login or refresh-token exchange issues an
\* access token for a user whose profile row is soft deleted.
C25_NoTokenForDeletedUser ==
    [][TokenIssued =>
          \A r \in users : r.id = aRes'.accessToken.id => ~r.is_deleted]_vars

\* Access tokens issued to soft-deleted users: by a refresh with a token
\* from before the deletion, and by a login.
C25_RefreshAfterDelete ==
    /\ aReq.route = "refresh-token"
    /\ aRes.accessToken # NoAccess
    /\ <<"users", aRes.accessToken.id>> \in softDeleted
    /\ \E r \in users : r.id = aRes.accessToken.id /\ r.is_deleted

C25_LoginAfterDelete ==
    /\ aReq.route \in {"website/login", "app/login"}
    /\ aRes.accessToken # NoAccess
    /\ \E r \in users : r.id = aRes.accessToken.id /\ r.is_deleted
    /\ nextToken = 1 \/ aReq.route = "website/login"

\* ---- C26 ----
\* The login route that admits the role of this row accepts password p.
LoginAccepts(r, p) ==
    IF r.usertype = "admin"
    THEN WebsiteLoginReply(r.username, p).status = 200
    ELSE AppLoginCheck(r.username, p).status = 0

\* The user with this id logs in with p and with no other password.
AcceptsExactly(id, p) ==
    \A r \in users : r.id = id => \A q \in Passwords : LoginAccepts(r, q) <=> q = p

\* C26: after a successful change-password, reset-password, app
\* registration or POST /users/add creation, the login route that admits
\* the user's role accepts exactly the password that request set.
C26_LoginsAgreeOnPassword ==
    /\ aReq.route \in {"change-password", "reset-password"} /\ aRes.status = 200
          => AcceptsExactly(aReq.userId, aReq.newPassword)
    /\ aReq.route = "app/register" /\ aRes.status = 201
          => AcceptsExactly(aRes.user.id, aReq.password)
    /\ usrReq.route = "POST /users/add" /\ usrRes.message = "User created successfully"
          => AcceptsExactly(usrReq.id, usrReq.body.password)

\* The routes that do agree: the app registration and change-password
\* with the app login, reset-password with the website login.
C26_RegisteredLogsIn ==
    /\ aReq.route = "app/register" /\ aRes.status = 201
    /\ AcceptsExactly(aRes.user.id, aReq.password)

C26_ResetAdminLogsIn ==
    /\ aReq.route = "reset-password" /\ aRes.status = 200 /\ aReq.userId = 1
    /\ aReq.newPassword = "secret2"
    /\ AcceptsExactly(1, "secret2")

\* The ones that do not: a patient or dentist created by POST /users/add
\* has no password column value, and a reset never reaches that column.
C26_AddedDentistLockedOut ==
    /\ usrReq.route = "POST /users/add" /\ usrRes.message = "User created successfully"
    /\ usrReq.body.usertype = "dentist"
    /\ AppLoginCheck(LowerUsername(usrReq.body.username), usrReq.body.password).status = 500
    /\ \A q \in Passwords : AppLoginCheck(LowerUsername(usrReq.body.username), q).status # 0

\* ---- C27 ----
\* The dental_models row a successful upload left for the fetched record.
FetchedModel == { m \in dentalModels : m.record_id = mRes.record_id }

\* C27: once an upload has succeeded for a record, GET /buckets/model of
\* that record answers 200 with a gltfUrl that addresses the stored gltf
\* object (the upload's bucket and the record's key), and with a binUrl
\* that addresses the stored bin object exactly when the latest upload
\* had a bin file.
C27_FetchAddressesStoredObjects ==
    mRes # NoModelReply =>
        \A m \in FetchedModel :
            /\ mRes.status = 200
            /\ mRes.gltfUrl = SignedUrl(UploadBucket, ModelPath(m.record_id, "gltf"))
            /\ [bucket |-> UploadBucket, path |-> ModelPath(m.record_id, "gltf")] \in objects
            /\ IF m.before_model_bin_url # Null
               THEN /\ mRes.binUrl = SignedUrl(UploadBucket, ModelPath(m.record_id, "bin"))
                    /\ [bucket |-> UploadBucket, path |-> ModelPath(m.record_id, "bin")]
                          \in objects
               ELSE mRes.binUrl = Null

\* The fetch after a successful upload with both files: no URL at all.
C27_FetchAfterUploadNoUrls ==
    /\ mRes.status = 200
    /\ \E m \in FetchedModel : m.before_model_bin_url # Null
    /\ uRes.status = 200 /\ uReq.record_id = mRes.record_id /\ uReq.bin
    /\ [bucket |-> UploadBucket, path |-> ModelPath(mRes.record_id, "gltf")] \in objects
    /\ mRes.gltfUrl = Null /\ mRes.binUrl = Null

\* ---- C28 ----
\* The step is an app login answered 200.
AppLoginAnswered200 == aReq'.route = "app/login" /\ nextToken' # nextToken

\* The rows of this table that a refresh presenting token t finds
RowsOfToken(table, t) == { r \in table : r.token = t }

\* C28: every app login stores a row of its own for its refresh token, and
\* a logout removes no row but the one of the token it was given: every
\* other refresh token, of the same user and of others, is still found by
\* the lookup of POST /auth/refresh-token.
C28_LogoutLeavesOtherTokens ==
    [][ /\ AppLoginAnswered200 =>
              /\ RowsOfToken(refreshTokens, aRes'.refreshToken) = {}
              /\ refreshTokens' = refreshTokens
                     \cup {[token |-> aRes'.refreshToken, user_id |-> aRes'.user.id]}
        /\ LogoutAnswered =>
              \A r \in refreshTokens :
                  r.token # aReq'.token =>
                     /\ r \in refreshTokens'
                     /\ MaybeSingleFound(RowsOfToken(refreshTokens', r.token)) ]_vars

C28_Witness ==
    /\ aReq.route = "logout" /\ aRes.status = 200
    /\ aReq.token \in 1..(nextToken - 1)
    /\ aReq.token \in loggedOut
    /\ RowsOfToken(refreshTokens, aReq.token) = {}
    /\ \E r \in refreshTokens :
          /\ r.token # aReq.token
          /\ r.user_id = SeedPatient.id
    /\ Cardinality(loggedOut \cap (1..(nextToken - 1))) = 1

\* ---- C29 ----
\* The step is a PUT /services/categories/:id being answered.
PutCategoryAnswered ==
    /\ cRes.status = 0 /\ cRes'.status # 0
    /\ cReq'.route = "PUT /services/categories/:id"

\* The positions of the links of a category, and the links of the others
LinksIn(ls, category_id) == { i \in DOMAIN ls : ls[i].category_id = category_id }

LinksOutside(ls, category_id) == SelectSeq(ls, LAMBDA l : l.category_id # category_id)

\* The service ids a services value names
NamedServices(sv) == { sv.ids[i] : i \in DOMAIN sv.ids } \ {0}

C29_WitnessInsertFailed ==
    /\ cReq.route = "PUT /services/categories/:id"
    /\ cReq.linkCall = "error"
    /\ cRes = CatalogReply(400, "link insert failed")
    /\ LinksIn(links, cReq.id) = {}

\* ---- C30 ----
\* The step is a POST /users/add of an administrator being answered.
UsersAddAnswered ==
    /\ usrRes.status = 0 /\ usrRes'.status # 0
    /\ usrReq'.route = "POST /users/add"
    /\ usrRes'.status \notin {401, 403}

\* The credentials with this e-mail, and the profile rows of a credential
MatchedUser(email) == { c \in authUsers : c.email = email }

ProfilesOf(us, creds) == { r \in us : \E c \in creds : c.id = r.id }

\* Every credential has a profile row of its id.
NoOrphanCredential(us, creds) == \A c \in creds : \E r \in us : r.id = c.id

\* C30: POST /users/add with the e-mail of an existing credential is
\* answered 400 and changes nothing when that credential's profile is
\* active; when the profile is missing or soft deleted and the request
\* succeeds, no credential is created and the profile of that id is
\* inserted or restored with is_deleted false and deleted_at null; and a
\* request that fails leaves no credential without a profile.
C30_AddWithKnownEmail ==
    [][UsersAddAnswered =>
          LET matched == MatchedUser(usrReq'.body.email)
              existing == ProfilesOf(users, matched)
              active == \E r \in existing : ~r.is_deleted
          IN  /\ matched # {} /\ active =>
                    /\ usrRes'.status = 400
                    /\ UNCHANGED <<users, authUsers, activityLogs>>
              /\ matched # {} /\ ~active /\ usrRes'.status = 201 =>
                    /\ authUsers' = authUsers
                    /\ ProfilesOf(users', matched) # {}
                    /\ \A r \in ProfilesOf(users', matched) :
                          ~r.is_deleted /\ r.deleted_at = Null
              /\ usrRes'.status = 500 => NoOrphanCredential(users', authUsers')]_vars

\* The two parts that hold: the refusal for an active profile, and the
\* restore of a soft-deleted one under its old credential.
C30_KnownEmailHandled ==
    [][UsersAddAnswered =>
          LET matched == MatchedUser(usrReq'.body.email)
              existing == ProfilesOf(users, matched)
              active == \E r \in existing : ~r.is_deleted
          IN  /\ matched # {} /\ active =>
                    /\ usrRes'.status = 400
                    /\ UNCHANGED <<users, authUsers, activityLogs>>
              /\ matched # {} /\ ~active /\ usrRes'.status = 201 =>
                    /\ authUsers' = authUsers
                    /\ ProfilesOf(users', matched) # {}
                    /\ \A r \in ProfilesOf(users', matched) :
                          ~r.is_deleted /\ r.deleted_at = Null]_vars

C30_Restored ==
    /\ usrReq.route = "POST /users/add"
    /\ usrRes.message = "User restored successfully"
    /\ <<"users", usrReq.id>> \in softDeleted
    /\ \E r \in users : r.id = usrReq.id /\ ~r.is_deleted /\ r.deleted_at = Null

C30_OrphanCredential ==
    /\ usrReq.route = "POST /users/add"
    /\ usrRes.status = 500
    /\ usrReq.calls.profile = "error"
    /\ \E c \in authUsers : c.email = usrReq.body.email /\ \A r \in users : r.id # c.id
====
